---- MODULE Spec2Model ----
(***************************************************************************)
(* A model of the TBS tax checklist (src/app/page.tsx): the login gate,    *)
(* the wizard step sequencer, the in-memory form state, the IndexedDB      *)
(* persistence adapter (saveUserData / loadUserData over an object store   *)
(* keyed by email), the 30 s autosave interval, the categorized lists, the *)
(* file normalizer and the upload handlers, the document composer          *)
(* (generatePDFContent as blocks, rows and sections), and the cleanup of   *)
(* localStorage at startup.                                                *)
(*                                                                         *)
(* One action is one event-loop task of the page: a click handler, a timer *)
(* callback, or the completion of an IndexedDB request together with the   *)
(* continuation that awaits it.                                            *)
(*                                                                         *)
(* Left out of the stored record: lastSaved (written by saveUserData,      *)
(* never read by any code of the page).                                    *)
(***************************************************************************)
EXTENDS Integers, Sequences, FiniteSets, TLC

VARIABLES
    isLoggedIn,             \* useState(false)
    isRegistering,          \* useState(false)
    loginEmail,             \* useState('')
    loginPassword,          \* useState('')
    confirmPassword,        \* useState('')
    loginError,             \* useState('')
    currentUser,            \* useState('')
    showSaveNotification,   \* useState(false)
    isGeneratingPDF,        \* useState(false)
    submitted,              \* useState(false)
    userAgreementAccepted,  \* useState(false)
    currentStep,            \* useState(0)
    filingJointly,          \* useState(false)
    clientInfo,             \* useState({name: '', ...})
    localStorage,           \* key "pwd_<email>" -> password; "" when the key is absent
    db,                     \* the object store 'userData': a set of records, keyPath 'email'
    dbQ,                    \* IndexedDB requests issued and not yet completed, oldest first
    notifTimers,            \* pending setTimeout(() => setShowSaveNotification(false), 2000)
    submitTimer,            \* pending setTimeout of handleSubmit (2000 ms)
    timer,                  \* seconds since the autosave interval was (re)created
    sinceSave,              \* seconds of session time since a save was last initiated
    dependents,             \* useState<Dependent[]>([])
    documentUploads,        \* useState({ incomeDocuments: [] })
    incomeData,             \* useState<IncomeDocument[]>([])
    adjustmentData,         \* useState<AdjustmentDocument[]>([])
    creditData,             \* useState<CreditDocument[]>([])
    pdfJsLoaded,            \* useState(false), set by the onload of the PDF.js script
    clock,                  \* the latest reading of Date.now()
    uploads,                \* upload handlers awaiting processFile, in the order started
    uploadProgress,         \* useState<string>('')
    progressTimers,         \* pending setTimeout(() => setUploadProgress(''), 2000)
    spouseInfo,             \* useState({name: '', ...})
    spouseSignature,        \* useState('')
    submissionMetadata,     \* useState(null)
    outputs                 \* the documents written to a print window or downloaded

vars == << isLoggedIn, isRegistering, loginEmail, loginPassword, confirmPassword,
           loginError, currentUser, showSaveNotification, isGeneratingPDF, submitted,
           userAgreementAccepted, currentStep, filingJointly, clientInfo,
           localStorage, db, dbQ, notifTimers, submitTimer, timer, sinceSave,
           dependents, documentUploads, incomeData, adjustmentData, creditData,
           pdfJsLoaded, clock, uploads, uploadProgress, progressTimers,
           spouseInfo, spouseSignature, submissionMetadata, outputs >>

\* The lists of the form state.
listVars == << dependents, documentUploads, incomeData, adjustmentData, creditData >>
formVars == << currentStep, filingJointly, clientInfo, userAgreementAccepted, listVars >>
\* What no handler of the login gate, the wizard or the persistence adapter touches.
envVars == << pdfJsLoaded, clock, uploads, uploadProgress, progressTimers >>
\* The spouse's fields of the form state, and what exists once the form is submitted.
spouseVars == << spouseInfo, spouseSignature >>
docVars == << spouseVars, submissionMetadata, outputs >>
sessionVars == << isLoggedIn, currentUser, loginEmail, loginPassword, confirmPassword >>

-----------------------------------------------------------------------------
(* Bounds of the model and constants of the program *)

MaxPending == 1             \* IndexedDB requests in flight at once
MaxOverlap == 2             \* the same, where saves are to overlap
MaxNotifTimers == 1         \* pending 2 s hide timers of one kind
TickSeconds == 15           \* granularity of the model's clock
MaxIdle == 45               \* sinceSave is not counted beyond this
MaxClock == 3               \* readings of Date.now(), in ms after the page opened
MaxDependents == 3          \* dependents listed at once
MaxPages == 2               \* pages of a PDF
MaxUploads == 2             \* upload handlers running at once
MaxFiles == 2               \* files uploaded for one type or list
MaxOutputs == 1             \* documents composed

AutosaveSeconds == 30       \* setInterval(..., 30000)
MinPasswordLength == 6      \* loginPassword.length < 6

steps == << "Welcome", "Client Information", "Spouse Information", "Dependents",
            "Document Uploads", "Income Information", "Adjustments",
            "Credits & Deductions", "Bank Information", "Review & Sign" >>

lastStep == Len(steps) - 1

\* steps[currentStep], the array being 0-based in the source
OnStep(name) == steps[currentStep + 1] = name

Emails == {"a@x.com", "b@x.com"}
\* The emails a credential may be stored for: Emails and one whose local part holds
\* an underscore word (nothing in handleRegister looks at the form of an email).
Accounts == Emails \cup {"tax_data@x.com"}
\* The name each user enters for themselves on the Client Information step.
OwnName(email) == IF email = "a@x.com" THEN "Al" ELSE "Bo"

\* Passwords a user may type, with their length in characters.
PasswordLength(p) ==
    CASE p = "" -> 0
      [] p = "abc" -> 3
      [] p = "secret1" -> 7
      [] p = "hunter22" -> 8

Undefined == [undefined |-> TRUE]     \* the result of store.get for a missing key

Min(a, b) == IF a < b THEN a ELSE b
Max(a, b) == IF a > b THEN a ELSE b

-----------------------------------------------------------------------------
(* The object store *)

\* store.put({ email, ...data }): an in-line key; the record under the same key is replaced.
StoredObject(email, data) == data @@ [email |-> email]

\* store.add in place of store.put: a record is added beside the one under its key.
PutAdd(store, email, data) == store \cup {StoredObject(email, data)}

\* A put that patches the record under the key, keeping its old acceptance flag.
PutMerge(store, email, data) ==
    {r \in store : r.email # email} \cup
    { IF \E r \in store : r.email = email
      THEN [StoredObject(email, data) EXCEPT !.userAgreementAccepted =
               (CHOOSE r \in store : r.email = email).userAgreementAccepted]
      ELSE StoredObject(email, data) }

Put(store, email, data) ==
    {r \in store : r.email # email} \cup {StoredObject(email, data)}

\* A get that ignores its key and returns a record of the store.
GetFirst(store, email) ==
    IF store # {} THEN CHOOSE r \in store : TRUE ELSE Undefined

\* store.get(email)
Get(store, email) ==
    IF \E r \in store : r.email = email
    THEN CHOOSE r \in store : r.email = email
    ELSE Undefined

-----------------------------------------------------------------------------
(* saveUserData *)

\* localStorage.getItem(`pwd_${email}`) || ''
Pwd(email) == localStorage[email]

\* The userData object saveUserData builds from the state of the current render.
UserData ==
    [ password              |-> Pwd(currentUser),
      currentStep           |-> currentStep,
      filingJointly         |-> filingJointly,
      clientInfo            |-> clientInfo,
      spouseInfo            |-> spouseInfo,
      dependents            |-> dependents,
      spouseSignature       |-> spouseSignature,
      documentUploads       |-> documentUploads,
      incomeData            |-> incomeData,
      adjustmentData        |-> adjustmentData,
      creditData            |-> creditData,
      userAgreementAccepted |-> userAgreementAccepted ]

SaveRequest(cont) ==
    [op |-> "save", email |-> currentUser, data |-> UserData, cont |-> cont]

LoadRequest(email) ==
    [op |-> "load", email |-> email, data |-> Undefined, cont |-> "none"]

-----------------------------------------------------------------------------
(* What the component renders: the early returns of TaxChecklistApp *)

Screen ==
    IF ~isLoggedIn THEN "login"
    ELSE IF submitted THEN "submitted"
    ELSE IF isGeneratingPDF THEN "generating"
    ELSE "wizard"

SessionActive == isLoggedIn /\ currentUser # ""

-----------------------------------------------------------------------------
(* Effects *)

\* The dependency list of the autosave effect, as far as the model holds it.
AutosaveDeps ==
    << isLoggedIn, currentUser, currentStep, filingJointly, clientInfo, spouseInfo,
       dependents, spouseSignature, documentUploads, incomeData, adjustmentData, creditData,
       userAgreementAccepted >>

\* useEffect(() => { setInterval(saveUserData, 30000); return clearInterval }, [deps]):
\* a change of any dependency clears the interval and creates a new one. newObjects
\* says that a setter was given a fresh object, which differs from the old one
\* whatever it holds.
AutosaveEffect(newObjects) ==
    timer' = IF ~(isLoggedIn' /\ currentUser' # "") THEN 0
             ELSE IF newObjects \/ AutosaveDeps' # AutosaveDeps THEN 0
             ELSE timer

\* The tail of handleLogout, after its await.
ClearSession ==
    /\ isLoggedIn' = FALSE
    /\ currentUser' = ""
    /\ loginEmail' = ""
    /\ loginPassword' = ""
    /\ confirmPassword' = ""

\* canProceedFromWelcome with the acceptance check lost.
AlwaysProceed == TRUE

canProceedFromWelcome == userAgreementAccepted

-----------------------------------------------------------------------------
(* Initial state: the useState initialisers; nothing stored yet *)

InitClientInfo == [name |-> ""]
InitSpouseInfo == [name |-> ""]
Null == [null |-> TRUE]

\* { timestamp: new Date().toISOString(), referenceId: crypto.randomUUID() }
Metadata(time, uuid) == [timestamp |-> time, referenceId |-> uuid]
InitDocumentUploads == [incomeDocuments |-> << >>]

Init ==
    /\ isLoggedIn = FALSE
    /\ isRegistering = FALSE
    /\ loginEmail = ""
    /\ loginPassword = ""
    /\ confirmPassword = ""
    /\ loginError = ""
    /\ currentUser = ""
    /\ showSaveNotification = FALSE
    /\ isGeneratingPDF = FALSE
    /\ submitted = FALSE
    /\ userAgreementAccepted = FALSE
    /\ currentStep = 0
    /\ filingJointly = FALSE
    /\ clientInfo = InitClientInfo
    /\ localStorage = [e \in Accounts |-> ""]
    /\ db = {}
    /\ dbQ = << >>
    /\ notifTimers = 0
    /\ submitTimer = FALSE
    /\ timer = 0
    /\ sinceSave = 0
    /\ dependents = << >>
    /\ documentUploads = InitDocumentUploads
    /\ incomeData = << >>
    /\ adjustmentData = << >>
    /\ creditData = << >>
    /\ pdfJsLoaded = FALSE
    /\ clock = 0
    /\ uploads = << >>
    /\ uploadProgress = ""
    /\ progressTimers = 0
    /\ spouseInfo = InitSpouseInfo
    /\ spouseSignature = ""
    /\ submissionMetadata = Null
    /\ outputs = << >>

-----------------------------------------------------------------------------
(* The login screen *)

ToggleRegistering ==
    /\ Screen = "login"
    /\ isRegistering' = ~isRegistering
    /\ loginError' = ""
    /\ confirmPassword' = ""
    /\ UNCHANGED << isLoggedIn, loginEmail, loginPassword, currentUser,
                    showSaveNotification, isGeneratingPDF, submitted, formVars,
                    localStorage, envVars, docVars, db, dbQ, notifTimers, submitTimer, timer, sinceSave >>

\* handleRegister without the check for an existing account.
RegisterErrorOverwrites(e, p, c) ==
    IF e = "" \/ p = "" \/ c = "" THEN "Please fill in all fields"
    ELSE IF p # c THEN "Passwords do not match"
    ELSE IF PasswordLength(p) < MinPasswordLength
         THEN "Password must be at least 6 characters"
    ELSE ""

\* The first failed check of handleRegister, "" when all pass.
RegisterError(e, p, c) ==
    IF e = "" \/ p = "" \/ c = "" THEN "Please fill in all fields"
    ELSE IF p # c THEN "Passwords do not match"
    ELSE IF PasswordLength(p) < MinPasswordLength
         THEN "Password must be at least 6 characters"
    ELSE IF Pwd(e) # "" THEN "An account with this email already exists"
    ELSE ""

\* The fields are typed, then Create Account is clicked. On success the effect on
\* [isLoggedIn, currentUser] calls loadUserData(currentUser).
HandleRegister(e, p, c) ==
    /\ Screen = "login"
    /\ isRegistering
    /\ loginEmail' = e
    /\ loginPassword' = p
    /\ confirmPassword' = c
    /\ loginError' = RegisterError(e, p, c)
    /\ IF RegisterError(e, p, c) = ""
       THEN /\ localStorage' = [localStorage EXCEPT ![e] = p]
            /\ currentUser' = e
            /\ isLoggedIn' = TRUE
            /\ isRegistering' = FALSE
            /\ dbQ' = Append(dbQ, LoadRequest(e))
       ELSE UNCHANGED << localStorage, currentUser, isLoggedIn, isRegistering, dbQ >>
    /\ sinceSave' = 0
    /\ UNCHANGED << showSaveNotification, isGeneratingPDF, submitted, formVars, db,
                    notifTimers, submitTimer, envVars, docVars >>
    /\ AutosaveEffect(FALSE)

\* The first failed check of handleLogin, "" when all pass.
LoginError(e, p) ==
    IF e = "" \/ p = "" THEN "Please enter both email and password"
    ELSE IF Pwd(e) = "" THEN "No account found with this email. Please register."
    ELSE IF Pwd(e) # p THEN "Incorrect password"
    ELSE ""

HandleLogin(e, p) ==
    /\ Screen = "login"
    /\ ~isRegistering
    /\ loginEmail' = e
    /\ loginPassword' = p
    /\ loginError' = LoginError(e, p)
    /\ IF LoginError(e, p) = ""
       THEN /\ currentUser' = e
            /\ isLoggedIn' = TRUE
            /\ dbQ' = Append(dbQ, LoadRequest(e))
       ELSE UNCHANGED << currentUser, isLoggedIn, dbQ >>
    /\ sinceSave' = 0
    /\ UNCHANGED << isRegistering, confirmPassword, localStorage, envVars, docVars, showSaveNotification,
                    isGeneratingPDF, submitted, formVars, db, notifTimers, submitTimer >>
    /\ AutosaveEffect(FALSE)

-----------------------------------------------------------------------------
(* Startup: clearOldLocalStorage *)

\* `pwd_${email}`, the key the credential of email is stored under
Key(email) == "pwd_" \o email

\* string.startsWith(prefix)
StartsWith(string, prefix) ==
    Len(string) >= Len(prefix) /\ SubSeq(string, 1, Len(prefix)) = prefix

\* string.includes(part)
Includes(string, part) ==
    \E i \in 1..(Len(string) - Len(part) + 1) :
        SubSeq(string, i, i + Len(part) - 1) = part

\* key.startsWith('user_') || key.includes('_data') || key.includes('_documents')
IsOldKey(key) ==
    StartsWith(key, "user_") \/ Includes(key, "_data") \/ Includes(key, "_documents")

\* clearOldLocalStorage: every key of localStorage that IsOldKey is removed. The keys
\* of store are those of the credentials, an item removed reads as "".
clearOldLocalStorage(store) ==
    [e \in DOMAIN store |-> IF IsOldKey(Key(e)) THEN "" ELSE store[e]]

\* The page is loaded again with no IndexedDB request pending: every useState starts
\* from its initial value, handlers and timers of the page left are gone, and the
\* effect with no dependencies runs clearOldLocalStorage. localStorage, the object
\* store and the documents already written out outlive the page.
Startup ==
    /\ dbQ = << >>
    /\ localStorage' = clearOldLocalStorage(localStorage)
    /\ isLoggedIn' = FALSE
    /\ isRegistering' = FALSE
    /\ loginEmail' = ""
    /\ loginPassword' = ""
    /\ confirmPassword' = ""
    /\ loginError' = ""
    /\ currentUser' = ""
    /\ showSaveNotification' = FALSE
    /\ isGeneratingPDF' = FALSE
    /\ submitted' = FALSE
    /\ userAgreementAccepted' = FALSE
    /\ currentStep' = 0
    /\ filingJointly' = FALSE
    /\ clientInfo' = InitClientInfo
    /\ notifTimers' = 0
    /\ submitTimer' = FALSE
    /\ timer' = 0
    /\ sinceSave' = 0
    /\ dependents' = << >>
    /\ documentUploads' = InitDocumentUploads
    /\ incomeData' = << >>
    /\ adjustmentData' = << >>
    /\ creditData' = << >>
    /\ pdfJsLoaded' = FALSE
    /\ uploads' = << >>
    /\ uploadProgress' = ""
    /\ progressTimers' = 0
    /\ spouseInfo' = InitSpouseInfo
    /\ spouseSignature' = ""
    /\ submissionMetadata' = Null
    /\ UNCHANGED << db, dbQ, clock, outputs >>

-----------------------------------------------------------------------------
(* The wizard *)

loginVars == << isRegistering, loginEmail, loginPassword, confirmPassword, loginError >>

\* Next: setCurrentStep(Math.min(steps.length - 1, currentStep + 1)),
\* disabled={currentStep === 0 && !canProceedFromWelcome()}.
NextDisabled == currentStep = 0 /\ ~canProceedFromWelcome

\* Next advancing by two steps.
NextStepSkips == Min(lastStep, currentStep + 2)

NextStep == Min(lastStep, currentStep + 1)

ClickNext ==
    /\ Screen = "wizard"
    /\ currentStep # lastStep          \* the last step renders Submit instead
    /\ currentStep' = IF NextDisabled THEN currentStep ELSE NextStep
    /\ UNCHANGED << isLoggedIn, currentUser, loginVars, showSaveNotification,
                    isGeneratingPDF, submitted, userAgreementAccepted, filingJointly,
                    clientInfo, listVars, localStorage, envVars, docVars, db, dbQ, notifTimers, submitTimer,
                    sinceSave >>
    /\ AutosaveEffect(FALSE)

\* Previous: setCurrentStep(Math.max(0, currentStep - 1)), disabled={currentStep === 0}.
PreviousDisabled == currentStep = 0

PreviousStep == Max(0, currentStep - 1)

ClickPrevious ==
    /\ Screen = "wizard"
    /\ currentStep' = IF PreviousDisabled THEN currentStep ELSE PreviousStep
    /\ UNCHANGED << isLoggedIn, currentUser, loginVars, showSaveNotification,
                    isGeneratingPDF, submitted, userAgreementAccepted, filingJointly,
                    clientInfo, listVars, localStorage, envVars, docVars, db, dbQ, notifTimers, submitTimer,
                    sinceSave >>
    /\ AutosaveEffect(FALSE)

\* The acceptance checkbox, rendered on the Welcome step only.
ToggleAgreement ==
    /\ Screen = "wizard"
    /\ currentStep = 0
    /\ userAgreementAccepted' = ~userAgreementAccepted
    /\ UNCHANGED << isLoggedIn, currentUser, loginVars, showSaveNotification,
                    isGeneratingPDF, submitted, currentStep, filingJointly, clientInfo,
                    listVars, localStorage, envVars, docVars, db, dbQ, notifTimers, submitTimer, sinceSave >>
    /\ AutosaveEffect(FALSE)

\* An input of the Client Information step: setClientInfo({...clientInfo, name: v}).
SetClientName(v) ==
    /\ Screen = "wizard"
    /\ currentStep = 1
    /\ v # clientInfo.name
    /\ clientInfo' = [clientInfo EXCEPT !.name = v]
    /\ UNCHANGED << isLoggedIn, currentUser, loginVars, showSaveNotification,
                    isGeneratingPDF, submitted, currentStep, filingJointly,
                    userAgreementAccepted, listVars, localStorage, envVars, docVars, db, dbQ, notifTimers,
                    submitTimer, sinceSave >>
    /\ AutosaveEffect(TRUE)

\* The filing-jointly checkbox of the Client Information step.
ToggleFilingJointly ==
    /\ Screen = "wizard"
    /\ currentStep = 1
    /\ filingJointly' = ~filingJointly
    /\ UNCHANGED << isLoggedIn, currentUser, loginVars, showSaveNotification,
                    isGeneratingPDF, submitted, currentStep, clientInfo,
                    userAgreementAccepted, listVars, localStorage, envVars, docVars, db, dbQ, notifTimers,
                    submitTimer, sinceSave >>
    /\ AutosaveEffect(FALSE)

\* Start New Checklist, on the submitted screen.
StartNewChecklist ==
    /\ Screen = "submitted"
    /\ submitted' = FALSE
    /\ currentStep' = 0
    /\ submissionMetadata' = Null
    /\ UNCHANGED << isLoggedIn, currentUser, loginVars, showSaveNotification,
                    isGeneratingPDF, filingJointly, clientInfo, userAgreementAccepted,
                    listVars, localStorage, envVars, spouseVars, outputs, db, dbQ, notifTimers, submitTimer, sinceSave >>
    /\ AutosaveEffect(FALSE)

-----------------------------------------------------------------------------
(* Callers of saveUserData *)

\* saveUserData returning before it saves anything.
AlwaysReturnsAtOnce == TRUE

\* saveUserData up to its await: with no current user it returns at once, else it
\* builds userData from the render's state and issues the put.
SaveReturnsAtOnce == currentUser = ""

IssueSave(cont) ==
    /\ dbQ' = Append(dbQ, SaveRequest(cont))
    /\ sinceSave' = 0

\* The Save Progress button.
ClickSave ==
    /\ Screen = "wizard"
    /\ IF SaveReturnsAtOnce THEN UNCHANGED << dbQ, sinceSave >> ELSE IssueSave("none")
    /\ UNCHANGED << isLoggedIn, currentUser, loginVars, showSaveNotification,
                    isGeneratingPDF, submitted, formVars, localStorage, envVars, docVars, db,
                    notifTimers, submitTimer, timer >>

\* handleLogout: await saveUserData(), then clear the session.
HandleLogout ==
    /\ Screen \in {"wizard", "submitted"}
    /\ IF SaveReturnsAtOnce
       THEN /\ ClearSession
            /\ UNCHANGED dbQ
            /\ sinceSave' = 0
       ELSE /\ IssueSave("logout")
            /\ UNCHANGED << isLoggedIn, currentUser, loginEmail, loginPassword,
                            confirmPassword >>
    /\ UNCHANGED << isRegistering, loginError, showSaveNotification, isGeneratingPDF,
                    submitted, formVars, localStorage, envVars, docVars, db, notifTimers, submitTimer >>
    /\ AutosaveEffect(FALSE)

\* handleSubmit: setIsGeneratingPDF(true), await saveUserData(), then the 2 s timer.
\* time is the reading of the clock by new Date(), uuid what crypto.randomUUID() gives.
HandleSubmit(time, uuid) ==
    /\ Screen = "wizard"
    /\ currentStep = lastStep
    /\ time >= clock
    /\ clock' = time
    /\ isGeneratingPDF' = TRUE
    /\ submissionMetadata' = Metadata(time, uuid)
    /\ IF SaveReturnsAtOnce
       THEN /\ submitTimer' = TRUE
            /\ UNCHANGED << dbQ, sinceSave >>
       ELSE /\ IssueSave("submit")
            /\ UNCHANGED submitTimer
    /\ UNCHANGED << isLoggedIn, currentUser, loginVars, showSaveNotification,
                    submitted, formVars, localStorage, pdfJsLoaded, uploads,
                    uploadProgress, progressTimers, spouseVars, outputs, db,
                    notifTimers, timer >>

\* The callback of the autosave interval.
Autosave ==
    /\ SessionActive
    /\ timer >= AutosaveSeconds
    /\ IssueSave("none")
    /\ timer' = 0
    /\ UNCHANGED << isLoggedIn, currentUser, loginVars, showSaveNotification,
                    isGeneratingPDF, submitted, formVars, localStorage, envVars, docVars, db,
                    notifTimers, submitTimer >>

\* Time passes in a session; it does not pass the moment the interval is due.
Tick ==
    /\ SessionActive
    /\ timer < AutosaveSeconds
    /\ timer' = timer + TickSeconds
    /\ sinceSave' = Min(MaxIdle, sinceSave + TickSeconds)
    /\ UNCHANGED << isLoggedIn, currentUser, loginVars, showSaveNotification,
                    isGeneratingPDF, submitted, formVars, localStorage, envVars, docVars, db, dbQ,
                    notifTimers, submitTimer >>

-----------------------------------------------------------------------------
(* Completion of the oldest IndexedDB request. Every request opens its own        *)
(* connection and transaction on the one store; open requests and transactions    *)
(* with overlapping scope are served in the order they were made.                 *)

\* loadUserData's setters: savedData.<field> || <default>.
LoadedStep(savedData) ==
    IF savedData.currentStep = 0 THEN 0 ELSE savedData.currentStep

LoadedFilingJointly(savedData) ==
    IF savedData.filingJointly = FALSE THEN FALSE ELSE savedData.filingJointly

LoadedClientInfo(savedData) == savedData.clientInfo

\* savedData.spouseInfo || spouseInfo, an object being truthy.
LoadedSpouseInfo(savedData) == savedData.spouseInfo

\* savedData.spouseSignature || ''
LoadedSpouseSignature(savedData) ==
    IF savedData.spouseSignature = "" THEN "" ELSE savedData.spouseSignature

\* savedData.<list> || [], an array being truthy even when empty.
LoadedList(list) == list

LoadedDocumentUploads(savedData) == savedData.documentUploads

\* A load that restores the step and leaves the acceptance flag unset.
LoadedAgreementLost(savedData) == FALSE

LoadedAgreement(savedData) ==
    IF savedData.userAgreementAccepted = FALSE THEN FALSE
    ELSE savedData.userAgreementAccepted

\* getFromIndexedDB resolves; loadUserData sets the form state when a record exists.
LoadSucceeds ==
    /\ dbQ # << >>
    /\ Head(dbQ).op = "load"
    /\ dbQ' = Tail(dbQ)
    /\ LET savedData == Get(db, Head(dbQ).email) IN
       IF savedData # Undefined
       THEN /\ currentStep' = LoadedStep(savedData)
            /\ filingJointly' = LoadedFilingJointly(savedData)
            /\ clientInfo' = LoadedClientInfo(savedData)
            /\ spouseInfo' = LoadedSpouseInfo(savedData)
            /\ dependents' = LoadedList(savedData.dependents)
            /\ spouseSignature' = LoadedSpouseSignature(savedData)
            /\ documentUploads' = LoadedDocumentUploads(savedData)
            /\ incomeData' = LoadedList(savedData.incomeData)
            /\ adjustmentData' = LoadedList(savedData.adjustmentData)
            /\ creditData' = LoadedList(savedData.creditData)
            /\ userAgreementAccepted' = LoadedAgreement(savedData)
            /\ UNCHANGED << isLoggedIn, currentUser >>
            /\ AutosaveEffect(TRUE)
       ELSE UNCHANGED << formVars, spouseVars, isLoggedIn, currentUser, timer >>
    /\ UNCHANGED << loginVars, showSaveNotification, isGeneratingPDF, submitted,
                    localStorage, envVars, submissionMetadata, outputs, db, notifTimers,
                    submitTimer, sinceSave >>

\* openDB or the get request rejects; loadUserData catches and logs.
LoadFails ==
    /\ dbQ # << >>
    /\ Head(dbQ).op = "load"
    /\ dbQ' = Tail(dbQ)
    /\ UNCHANGED << isLoggedIn, currentUser, loginVars, showSaveNotification,
                    isGeneratingPDF, submitted, formVars, localStorage, envVars, docVars, db,
                    notifTimers, submitTimer, timer, sinceSave >>

\* What the caller of saveUserData does once the await returns.
AfterSave(cont) ==
    /\ IF cont = "logout"
       THEN /\ ClearSession
            /\ sinceSave' = 0
       ELSE UNCHANGED << isLoggedIn, currentUser, loginEmail, loginPassword,
                         confirmPassword, sinceSave >>
    /\ submitTimer' = IF cont = "submit" THEN TRUE ELSE submitTimer
    /\ UNCHANGED << isRegistering, loginError, isGeneratingPDF, submitted, formVars,
                    localStorage, envVars, docVars >>
    /\ AutosaveEffect(FALSE)

\* The put succeeds: the record is written, the notification shown for 2 s.
SaveSucceeds ==
    /\ dbQ # << >>
    /\ Head(dbQ).op = "save"
    /\ dbQ' = Tail(dbQ)
    /\ db' = Put(db, Head(dbQ).email, Head(dbQ).data)
    /\ showSaveNotification' = TRUE
    /\ notifTimers' = notifTimers + 1
    /\ AfterSave(Head(dbQ).cont)

\* The notification set outside the try block: shown after a failed save too.
SaveFailsNotifies ==
    /\ dbQ # << >>
    /\ Head(dbQ).op = "save"
    /\ dbQ' = Tail(dbQ)
    /\ UNCHANGED db
    /\ showSaveNotification' = TRUE
    /\ notifTimers' = notifTimers + 1
    /\ AfterSave(Head(dbQ).cont)

\* The rejection escaping saveUserData: what awaits the save never goes on.
SaveFailsPropagates ==
    /\ dbQ # << >>
    /\ Head(dbQ).op = "save"
    /\ dbQ' = Tail(dbQ)
    /\ UNCHANGED << isLoggedIn, currentUser, loginVars, showSaveNotification,
                    isGeneratingPDF, submitted, formVars, localStorage, envVars, docVars, db,
                    notifTimers, submitTimer, timer, sinceSave >>

\* openDB or the put request rejects; saveUserData catches and logs.
SaveFails ==
    /\ dbQ # << >>
    /\ Head(dbQ).op = "save"
    /\ dbQ' = Tail(dbQ)
    /\ UNCHANGED << db, showSaveNotification, notifTimers >>
    /\ AfterSave(Head(dbQ).cont)

\* setTimeout(() => setShowSaveNotification(false), 2000)
NotifTimeout ==
    /\ notifTimers > 0
    /\ notifTimers' = notifTimers - 1
    /\ showSaveNotification' = FALSE
    /\ UNCHANGED << isLoggedIn, currentUser, loginVars, isGeneratingPDF, submitted,
                    formVars, localStorage, envVars, docVars, db, dbQ, submitTimer, timer, sinceSave >>

\* setTimeout(() => { setIsGeneratingPDF(false); setSubmitted(true) }, 2000)
SubmitTimeout ==
    /\ submitTimer
    /\ submitTimer' = FALSE
    /\ isGeneratingPDF' = FALSE
    /\ submitted' = TRUE
    /\ UNCHANGED << isLoggedIn, currentUser, loginVars, showSaveNotification,
                    formVars, localStorage, envVars, docVars, db, dbQ, notifTimers, timer, sinceSave >>

-----------------------------------------------------------------------------
(* The categorized lists: income, adjustments, credits *)

incomeTypes ==
    << "W-2 Forms (Employment Income)", "1099-MISC (Miscellaneous Income)",
       "1099-NEC (Non-Employee Compensation)", "1099-INT (Interest Income)",
       "1099-DIV (Dividend Income)", "1099-B (Proceeds from Broker Transactions)",
       "1099-K (Payment Card and Third Party Network Transactions)",
       "1099-R (Retirement Distributions)", "1099-SSA (Social Security Benefits)",
       "1099-G (Government Payments)", "Rental Property Income",
       "Capital Gains/Losses", "Trading Activity (Traditional/Virtual Currency)" >>

adjustmentTypes ==
    << "IRA Contributions", "SEP IRA Contributions", "Student Loan Interest",
       "Tuition and Fees", "Self-Employed Pension Plans" >>

creditTypes ==
    << "Childcare Expenses", "Education Expenses (Form 1098-T)", "Adoption Expenses",
       "Mortgage Interest", "Private Mortgage Insurance (PMI)",
       "Investment Interest Expenses", "Home Business Expenses",
       "Rental Property Expenses" >>

Range(seq) == {seq[i] : i \in 1..Len(seq)}

\* What every handler of the form leaves alone.
outsideForm ==
    << isLoggedIn, currentUser, loginVars, showSaveNotification, isGeneratingPDF,
       submitted, localStorage, db, dbQ, notifTimers, submitTimer, sinceSave >>

\* list.some(item => item.type === type)
IsSelected(list, type) == \E i \in 1..Len(list) : list[i].type = type

\* A deselection that empties the list.
WithoutAll(list, type) == << >>

\* list.filter(item => item.type !== type)
Without(list, type) == SelectSeq(list, LAMBDA item : item.type # type)

\* A toggle that never removes an entry.
ToggleNeverRemoves(list, type, entry) ==
    IF IsSelected(list, type) THEN list ELSE Append(list, entry)

\* The list a toggle sets: the entry of the type filtered out, or a new entry appended.
Toggled(list, type, entry) ==
    IF IsSelected(list, type) THEN Without(list, type) ELSE Append(list, entry)

NewIncome(type) == [type |-> type, files |-> << >>]
NewAdjustment(type) == [type |-> type, amount |-> "", files |-> << >>]
NewCredit(type) == [type |-> type, details |-> "", files |-> << >>]

toggleIncome(type) ==
    /\ Screen = "wizard"
    /\ OnStep("Income Information")
    /\ incomeData' = Toggled(incomeData, type, NewIncome(type))
    /\ UNCHANGED << outsideForm, docVars, envVars, currentStep, filingJointly, clientInfo,
                    userAgreementAccepted, dependents, documentUploads,
                    adjustmentData, creditData >>
    /\ AutosaveEffect(TRUE)

toggleAdjustment(type) ==
    /\ Screen = "wizard"
    /\ OnStep("Adjustments")
    /\ adjustmentData' = Toggled(adjustmentData, type, NewAdjustment(type))
    /\ UNCHANGED << outsideForm, docVars, envVars, currentStep, filingJointly, clientInfo,
                    userAgreementAccepted, dependents, documentUploads,
                    incomeData, creditData >>
    /\ AutosaveEffect(TRUE)

\* prev.map(item => item.type === type ? { ...item, [field]: value } : item)
Updated(list, type, field, value) ==
    [i \in 1..Len(list) |->
        IF list[i].type = type THEN [list[i] EXCEPT ![field] = value] ELSE list[i]]

\* The amount input, rendered for a selected adjustment.
updateAdjustmentAmount(type, amount) ==
    /\ Screen = "wizard"
    /\ OnStep("Adjustments")
    /\ IsSelected(adjustmentData, type)
    /\ adjustmentData' = Updated(adjustmentData, type, "amount", amount)
    /\ UNCHANGED << outsideForm, docVars, envVars, currentStep, filingJointly, clientInfo,
                    userAgreementAccepted, dependents, documentUploads,
                    incomeData, creditData >>
    /\ AutosaveEffect(TRUE)

toggleCredit(type) ==
    /\ Screen = "wizard"
    /\ OnStep("Credits & Deductions")
    /\ creditData' = Toggled(creditData, type, NewCredit(type))
    /\ UNCHANGED << outsideForm, docVars, envVars, currentStep, filingJointly, clientInfo,
                    userAgreementAccepted, dependents, documentUploads,
                    incomeData, adjustmentData >>
    /\ AutosaveEffect(TRUE)

\* The details input, rendered for a selected credit.
updateCreditDetails(type, details) ==
    /\ Screen = "wizard"
    /\ OnStep("Credits & Deductions")
    /\ IsSelected(creditData, type)
    /\ creditData' = Updated(creditData, type, "details", details)
    /\ UNCHANGED << outsideForm, docVars, envVars, currentStep, filingJointly, clientInfo,
                    userAgreementAccepted, dependents, documentUploads,
                    incomeData, adjustmentData >>
    /\ AutosaveEffect(TRUE)

-----------------------------------------------------------------------------
(* The file normalizer: convertPdfToImages, compressImage, processFile *)

\* What the rasterizer does with a PDF: getDocument rejects ("load"), or the document
\* has numPages pages and page failPage, if any, either throws in getPage or render
\* ("throws") or gets no 2D context for its canvas ("nocontext").
Rasterizations ==
    {[numPages |-> 0, failPage |-> 0, failKind |-> "load"]} \cup
    {[numPages |-> n, failPage |-> 0, failKind |-> "none"] : n \in 0..MaxPages} \cup
    {r \in [numPages : 1..MaxPages, failPage : 1..MaxPages,
             failKind : {"throws", "nocontext"}] : r.failPage <= r.numPages}

Rejected(error) == [resolved |-> FALSE, error |-> error]
Resolved(value) == [resolved |-> TRUE, value |-> value]

\* canvas.toDataURL('image/jpeg', 0.9) of a rendered page
PageImage(file, pageNum) == [kind |-> "jpeg", of |-> file.name, page |-> pageNum]

\* reader.readAsDataURL(file): the raw file as a data URL
RawData(file) == [kind |-> "raw", of |-> file.name, page |-> 0]

\* canvas.toDataURL(file.type, quality) of the image scaled to at most maxWidth
CompressedData(file) == [kind |-> "compressed", of |-> file.name, page |-> 0]

\* The page loop of convertPdfToImages, from page pageNum on.
RECURSIVE ConvertPages(_, _, _, _)
ConvertPages(file, raster, pageNum, images) ==
    IF pageNum > raster.numPages THEN Resolved(images)
    ELSE IF raster.failPage = pageNum
         THEN IF raster.failKind = "nocontext"
              THEN Rejected("Could not get canvas context")
              ELSE Rejected("page error")
    ELSE ConvertPages(file, raster, pageNum + 1,
                      Append(images, PageImage(file, pageNum)))

\* A conversion whose page images come out in the order the renders finish.
ConvertUnordered(file, pdfjsLib, raster) ==
    IF raster.failKind = "load" \/ raster.failPage # 0 THEN Rejected("error")
    ELSE Resolved([i \in 1..raster.numPages |->
                      PageImage(file, raster.numPages + 1 - i)])

convertPdfToImages(file, pdfjsLib, raster) ==
    IF ~pdfjsLib THEN Rejected("PDF.js not loaded")
    ELSE IF raster.failKind = "load" THEN Rejected("load error")
    ELSE ConvertPages(file, raster, 1, << >>)

UploadedFile(name, type, data) == [name |-> name, type |-> type, data |-> data]

\* [{ name: file.name, type: file.type, data }] with the raw file as data
RawFallback(file) == << UploadedFile(file.name, file.type, RawData(file)) >>

\* images.map((imageData, index) => ({ name: `${file.name} - Page ${index + 1}`, ... }))
PageRecords(file, images) ==
    [i \in 1..Len(images) |->
        UploadedFile(file.name \o " - Page " \o ToString(i), "image/jpeg", images[i])]

\* file.type.startsWith('image/')
IsImageType(type) == type \in {"image/png", "image/jpeg"}

\* A processFile that lets the rejection of the conversion through to its caller.
processFileRejects(file, loaded, raster, imageLoads) ==
    IF file.type = "application/pdf"
    THEN IF loaded
         THEN LET images == convertPdfToImages(file, loaded, raster) IN
              IF images.resolved
              THEN Resolved(PageRecords(file, images.value))
              ELSE images
         ELSE Resolved(RawFallback(file))
    ELSE IF IsImageType(file.type)
    THEN IF imageLoads
         THEN Resolved(<< UploadedFile(file.name, file.type, CompressedData(file)) >>)
         ELSE Rejected("image error")
    ELSE Resolved(RawFallback(file))

\* processFile(file) in a render whose pdfJsLoaded is loaded (window.pdfjsLib is set
\* when pdfJsLoaded is), the rasterizer behaving as raster and the image decoding or
\* not: what the promise resolves with, or that it rejects.
processFile(file, loaded, raster, imageLoads) ==
    IF file.type = "application/pdf"
    THEN IF loaded
         THEN LET images == convertPdfToImages(file, loaded, raster) IN
              IF images.resolved
              THEN Resolved(PageRecords(file, images.value))
              ELSE Resolved(RawFallback(file))
         ELSE Resolved(RawFallback(file))
    ELSE IF IsImageType(file.type)
    THEN IF imageLoads
         THEN Resolved(<< UploadedFile(file.name, file.type, CompressedData(file)) >>)
         ELSE Rejected("image error")
    ELSE Resolved(RawFallback(file))

-----------------------------------------------------------------------------
(* The upload handlers. A handler awaits processFile for one file of its selection  *)
(* at a time; an action below is the handler up to its first await, or the          *)
(* completion of the processFile it awaits together with what the handler does up   *)
(* to its next await or its end.                                                    *)

\* setUploadProgress at the start of processFile(file)
ProgressAtStart(file, progress) ==
    IF file.type = "application/pdf" THEN "Processing PDF: " \o file.name \o "..."
    ELSE IF IsImageType(file.type) THEN "Compressing image: " \o file.name \o "..."
    ELSE progress

\* setUploadProgress(`PDF converted: ${images.length} page(s)`)
ProgressAtEnd(file, result, progress) ==
    IF file.type = "application/pdf" /\ result.resolved
       /\ \A i \in 1..Len(result.value) : result.value[i].type = "image/jpeg"
    THEN "PDF converted: " \o ToString(Len(result.value)) \o " page(s)"
    ELSE progress

\* A running handler: the input's field, the category type (of a categorized input),
\* the files selected, how many of them processFile is done with, the newFiles
\* collected (categorized inputs) and the pdfJsLoaded of the render it was made in.
Upload(field, type, files, loaded) ==
    [field |-> field, type |-> type, files |-> files, done |-> 0,
     newFiles |-> << >>, loaded |-> loaded]

StartUpload(field, type, files) ==
    /\ uploads' = Append(uploads, Upload(field, type, files, pdfJsLoaded))
    /\ uploadProgress' = ProgressAtStart(files[1], uploadProgress)
    /\ UNCHANGED << outsideForm, docVars, formVars, pdfJsLoaded, clock, progressTimers >>
    /\ AutosaveEffect(FALSE)

\* An input of the Document Uploads step: the multiple input of incomeDocuments, or
\* a single-file input, which takes files[0]. The input of the spouse's licence is
\* rendered when filing jointly.
handleFileUpload(field, files) ==
    /\ Screen = "wizard"
    /\ OnStep("Document Uploads")
    /\ field = "spouseDL" => filingJointly
    /\ files # << >>
    /\ StartUpload(field, "",
                   IF field = "incomeDocuments" THEN files ELSE << files[1] >>)

\* The file input of a selected income type.
handleIncomeFileUpload(type, files) ==
    /\ Screen = "wizard"
    /\ OnStep("Income Information")
    /\ IsSelected(incomeData, type)
    /\ files # << >>
    /\ StartUpload("incomeData", type, files)

\* The file input of a selected adjustment type.
handleAdjustmentFileUpload(type, files) ==
    /\ Screen = "wizard"
    /\ OnStep("Adjustments")
    /\ IsSelected(adjustmentData, type)
    /\ files # << >>
    /\ StartUpload("adjustmentData", type, files)

\* The file input of a selected credit type.
handleCreditFileUpload(type, files) ==
    /\ Screen = "wizard"
    /\ OnStep("Credits & Deductions")
    /\ IsSelected(creditData, type)
    /\ files # << >>
    /\ StartUpload("creditData", type, files)

\* A completion that puts back the entry of a type no longer selected.
WithFilesReselecting(list, type, newFiles) ==
    IF IsSelected(list, type)
    THEN [i \in 1..Len(list) |->
             IF list[i].type = type
             THEN [list[i] EXCEPT !.files = @ \o newFiles]
             ELSE list[i]]
    ELSE Append(list, [type |-> type, files |-> newFiles])

\* prev.map(item => item.type === type
\*                    ? { ...item, files: [...item.files, ...newFiles] } : item)
WithFiles(list, type, newFiles) ==
    [i \in 1..Len(list) |->
        IF list[i].type = type
        THEN [list[i] EXCEPT !.files = @ \o newFiles]
        ELSE list[i]]

\* { ...prev, [field]: value }
WithField(object, field, value) ==
    [f \in DOMAIN object \cup {field} |-> IF f = field THEN value ELSE object[f]]

\* The last of the records instead of the first.
LastOf(list) == IF list = << >> THEN Undefined ELSE list[Len(list)]

\* uploadedFiles[0]
First(list) == IF list = << >> THEN Undefined ELSE list[1]

RemoveAt(seq, i) == SubSeq(seq, 1, i - 1) \o SubSeq(seq, i + 1, Len(seq))

\* A handler that starts processFile for the file after the next.
NextFileSkips(upload) ==
    IF upload.done + 2 <= Len(upload.files) THEN upload.done + 2 ELSE upload.done + 1

\* The file whose processFile the handler awaits.
NextFile(upload) == upload.done + 1

\* The processFile awaited by the i-th running handler completes; the handler takes
\* the result and goes on to its next file or to its end.
FileProcessed(i, raster, imageLoads) ==
    /\ i \in 1..Len(uploads)
    /\ UNCHANGED << outsideForm, docVars, currentStep, filingJointly, clientInfo,
                    userAgreementAccepted, dependents, pdfJsLoaded, clock >>
    /\ LET upload == uploads[i]
           file == upload.files[NextFile(upload)]
           result == processFile(file, upload.loaded, raster, imageLoads)
           uploadedFiles == IF result.resolved THEN result.value ELSE << >>
           newFiles == upload.newFiles \o uploadedFiles
           more == NextFile(upload) < Len(upload.files)
           progress == ProgressAtEnd(file, result, uploadProgress)
       IN
       /\ uploads' = IF more
                     THEN [uploads EXCEPT ![i].done = NextFile(upload),
                                          ![i].newFiles = newFiles]
                     ELSE RemoveAt(uploads, i)
       /\ uploadProgress' =
              IF more THEN ProgressAtStart(upload.files[NextFile(upload) + 1], progress)
              ELSE progress
       /\ progressTimers' = IF more THEN progressTimers ELSE progressTimers + 1
       /\ documentUploads' =
              IF upload.field = "incomeDocuments"
              THEN IF result.resolved
                   THEN [documentUploads EXCEPT !.incomeDocuments = @ \o uploadedFiles]
                   ELSE documentUploads
              ELSE IF upload.field \in {"incomeData", "adjustmentData", "creditData"}
                   THEN documentUploads
              ELSE IF result.resolved
                   THEN WithField(documentUploads, upload.field, First(uploadedFiles))
                   ELSE documentUploads
       /\ incomeData' = IF upload.field = "incomeData" /\ ~more
                        THEN WithFiles(incomeData, upload.type, newFiles)
                        ELSE incomeData
       /\ adjustmentData' = IF upload.field = "adjustmentData" /\ ~more
                            THEN WithFiles(adjustmentData, upload.type, newFiles)
                            ELSE adjustmentData
       /\ creditData' = IF upload.field = "creditData" /\ ~more
                        THEN WithFiles(creditData, upload.type, newFiles)
                        ELSE creditData
       /\ AutosaveEffect(IF upload.field \in {"incomeData", "adjustmentData", "creditData"}
                         THEN ~more ELSE result.resolved)

\* setTimeout(() => setUploadProgress(''), 2000)
ProgressTimeout ==
    /\ progressTimers > 0
    /\ progressTimers' = progressTimers - 1
    /\ uploadProgress' = ""
    /\ UNCHANGED << outsideForm, docVars, formVars, pdfJsLoaded, clock, uploads, timer >>

\* script.onload of the PDF.js script: window.pdfjsLib is set, setPdfJsLoaded(true).
ScriptLoaded ==
    /\ ~pdfJsLoaded
    /\ pdfJsLoaded' = TRUE
    /\ UNCHANGED << outsideForm, docVars, formVars, clock, uploads, uploadProgress,
                    progressTimers, timer >>

-----------------------------------------------------------------------------
(* Dependents *)

\* { id: Date.now().toString(), name: '', dob: '', ssn: '', relationship: '' }
NewDependent(time) ==
    [id |-> ToString(time), name |-> "", dob |-> "", ssn |-> "", relationship |-> ""]

\* Add Dependent; Date.now() reads time, no earlier than the latest reading.
addDependent(time) ==
    /\ Screen = "wizard"
    /\ OnStep("Dependents")
    /\ time >= clock
    /\ clock' = time
    /\ dependents' = Append(dependents, NewDependent(time))
    /\ UNCHANGED << outsideForm, docVars, pdfJsLoaded, uploads, uploadProgress, progressTimers,
                    currentStep, filingJointly,
                    clientInfo, userAgreementAccepted, documentUploads, incomeData,
                    adjustmentData, creditData >>
    /\ AutosaveEffect(TRUE)

\* The remove button of a dependent: dependents.filter(dep => dep.id !== id)
removeDependent(id) ==
    /\ Screen = "wizard"
    /\ OnStep("Dependents")
    /\ \E i \in 1..Len(dependents) : dependents[i].id = id
    /\ dependents' = SelectSeq(dependents, LAMBDA dep : dep.id # id)
    /\ UNCHANGED << outsideForm, docVars, envVars, currentStep, filingJointly, clientInfo,
                    userAgreementAccepted, documentUploads, incomeData,
                    adjustmentData, creditData >>
    /\ AutosaveEffect(TRUE)

\* An input of a dependent:
\* dependents.map(dep => dep.id === id ? { ...dep, [field]: value } : dep)
updateDependent(id, field, value) ==
    /\ Screen = "wizard"
    /\ OnStep("Dependents")
    /\ \E i \in 1..Len(dependents) : dependents[i].id = id
    /\ dependents' = [i \in 1..Len(dependents) |->
                         IF dependents[i].id = id
                         THEN [dependents[i] EXCEPT ![field] = value]
                         ELSE dependents[i]]
    /\ UNCHANGED << outsideForm, docVars, envVars, currentStep, filingJointly, clientInfo,
                    userAgreementAccepted, documentUploads, incomeData,
                    adjustmentData, creditData >>
    /\ AutosaveEffect(TRUE)

-----------------------------------------------------------------------------
(* The spouse's fields *)

\* The name input of the Spouse Information step, rendered when filing jointly:
\* setSpouseInfo({...spouseInfo, name: v}).
SetSpouseName(v) ==
    /\ Screen = "wizard"
    /\ OnStep("Spouse Information")
    /\ filingJointly
    /\ v # spouseInfo.name
    /\ spouseInfo' = [spouseInfo EXCEPT !.name = v]
    /\ UNCHANGED << outsideForm, envVars, formVars, spouseSignature,
                    submissionMetadata, outputs >>
    /\ AutosaveEffect(TRUE)

\* The spouse signature input of the Review & Sign step, rendered when filing jointly.
SetSpouseSignature(v) ==
    /\ Screen = "wizard"
    /\ OnStep("Review & Sign")
    /\ filingJointly
    /\ v # spouseSignature
    /\ spouseSignature' = v
    /\ UNCHANGED << outsideForm, envVars, formVars, spouseInfo,
                    submissionMetadata, outputs >>
    /\ AutosaveEffect(FALSE)

\* The single-file fields of documentUploads.
SlotNames == {"clientDL", "spouseDL", "lastYearTax", "irsPin"}

-----------------------------------------------------------------------------
(* The document composer: generatePDFContent. The document is held as the sequence *)
(* of its blocks, in the order of the template; an interpolation that gives ''     *)
(* adds no block. Of the rows of a block those are held whose fields the model     *)
(* holds.                                                                          *)

\* A property of an object, undefined when the object has none of that name.
Slot(object, field) == IF field \in DOMAIN object THEN object[field] ELSE Undefined

\* What JavaScript takes as true: an object or a missing one, a string.
IsObject(value) == value # Undefined /\ value # Null
NonEmpty(string) == string # ""

Row(label, value) == [label |-> label, value |-> value]

Block(heading, rows, parts) == [heading |-> heading, rows |-> rows, parts |-> parts]

\* The dependent blocks numbered in list order and filled newest first.
DependentsNewestFirst ==
    [index \in 1..Len(dependents) |->
        Block("Dependent " \o ToString(index),
              << Row("Name:", dependents[Len(dependents) + 1 - index].name) >>,
              << >>)]

dependentsHTML ==
    [index \in 1..Len(dependents) |->
        Block("Dependent " \o ToString(index),
              << Row("Name:", dependents[index].name), Row("DOB:", dependents[index].dob),
                 Row("SSN:", dependents[index].ssn),
                 Row("Relationship:", dependents[index].relationship) >>,
              << >>)]

\* Every caller passes an array, so of !files || files.length === 0 the length decides.
generateDocumentImages(files, title) ==
    IF Len(files) = 0 THEN << >>
    ELSE << [title |-> title,
             pages |-> [idx \in 1..Len(files) |->
                           [name |-> files[idx].name, src |-> files[idx].data]]] >>

SlotImages(field, title) ==
    IF IsObject(Slot(documentUploads, field))
    THEN generateDocumentImages(<< Slot(documentUploads, field) >>, title)
    ELSE << >>

step4DocsHTML ==
    SlotImages("clientDL", "Client Driver's License")
    \o SlotImages("spouseDL", "Spouse Driver's License")
    \o SlotImages("lastYearTax", "Last Year's Tax Return")
    \o (IF Len(documentUploads.incomeDocuments) > 0
        THEN generateDocumentImages(documentUploads.incomeDocuments,
                                    "General Income Documents")
        ELSE << >>)
    \o SlotImages("irsPin", "IRS PIN Letter")

Documents(files) == ToString(Len(files)) \o " document(s)"

\* One income-section: the row of the type, marked as selected, and its documents.
IncomeSection(income) ==
    [row |-> Row(income.type, Documents(income.files)),
     images |-> generateDocumentImages(income.files, income.type)]

incomeHTML ==
    IF Len(incomeData) > 0
    THEN << Block("Income Sources", << >>,
                  [i \in 1..Len(incomeData) |-> IncomeSection(incomeData[i])]) >>
    ELSE << >>

AdjustmentSection(adjustment) ==
    [row |-> Row(adjustment.type \o ":",
                 "$" \o adjustment.amount \o " (" \o Documents(adjustment.files) \o ")"),
     images |-> generateDocumentImages(adjustment.files, adjustment.type)]

\* The adjustments section rendered whatever the list holds.
AdjustmentsAlways ==
    << Block("Income Adjustments", << >>,
             [i \in 1..Len(adjustmentData) |-> AdjustmentSection(adjustmentData[i])]) >>

adjustmentsHTML ==
    IF Len(adjustmentData) > 0
    THEN << Block("Income Adjustments", << >>,
                  [i \in 1..Len(adjustmentData) |-> AdjustmentSection(adjustmentData[i])]) >>
    ELSE << >>

CreditSection(credit) ==
    [row |-> Row(credit.type, Documents(credit.files)),
     images |-> generateDocumentImages(credit.files, credit.type)]

creditsHTML ==
    IF Len(creditData) > 0
    THEN << Block("Credits & Deductions", << >>,
                  [i \in 1..Len(creditData) |-> CreditSection(creditData[i])]) >>
    ELSE << >>

\* new Date(metadata.timestamp).toLocaleString('en-US', {...}): the instant, to the
\* second, as a text of that form.
LocaleString(timestamp) == [format |-> "en-US long", instant |-> timestamp]

MetadataSection(metadata) ==
    Block("Submission Metadata",
          << Row("Submission Timestamp:", LocaleString(metadata.timestamp)),
             Row("Reference ID:", metadata.referenceId),
             Row("Document Version:", "2025-TAX-ORGANIZER-v1.0") >>,
          << >>)

\* The template literal that generatePDFContent returns.
Template(currentDate, metadata) ==
    [ title     |-> "Tax Checklist - " \o clientInfo.name,
      generated |-> currentDate,
      blocks    |->
          << Block("Client Information", << Row("Name:", clientInfo.name) >>, << >>),
             Block("Address & License", << >>, << >>) >>
          \o (IF filingJointly /\ NonEmpty(spouseInfo.name)
              THEN << Block("Spouse Information",
                            << Row("Name:", spouseInfo.name) >>, << >>) >>
              ELSE << >>)
          \o << Block("Bank Information", << >>, << >>) >>
          \o dependentsHTML
          \o << Block("Uploaded Documents", << >>, step4DocsHTML) >>
          \o incomeHTML
          \o adjustmentsHTML
          \o creditsHTML
          \o << Block("Taxpayer Signature", << Row("Date:", currentDate) >>, << >>) >>
          \o (IF filingJointly /\ NonEmpty(spouseSignature)
              THEN << Block("Spouse Signature",
                            << Row("Signature:", spouseSignature),
                               Row("Date:", currentDate) >>, << >>) >>
              ELSE << >>)
          \o << Block("Taxpayer Signature:", << Row("Date:", currentDate) >>, << >>) >>
          \o (IF filingJointly /\ NonEmpty(spouseSignature)
              THEN << Block("Spouse Signature:",
                            << Row("Signature:", spouseSignature),
                               Row("Date:", currentDate) >>, << >>) >>
              ELSE << >>)
          \o << MetadataSection(metadata) >> ]

\* generatePDFContent with metadata of its own at every call.
generatePDFContentAnew(currentDate, fresh) == Template(currentDate, fresh)

\* currentDate is new Date().toLocaleDateString(); fresh is the metadata the call
\* makes for itself when the state holds none.
generatePDFContent(currentDate, fresh) ==
    Template(currentDate,
             IF IsObject(submissionMetadata) THEN submissionMetadata ELSE fresh)

\* Print PDF on the submitted screen. popup is whether window.open gives a window;
\* without one the handler alerts and returns.
downloadPDF(popup, currentDate, fresh) ==
    /\ Screen = "submitted"
    /\ outputs' = IF popup
                  THEN Append(outputs, [via |-> "print",
                                        content |-> generatePDFContent(currentDate, fresh)])
                  ELSE outputs
    /\ UNCHANGED << outsideForm, envVars, formVars, spouseVars, submissionMetadata,
                    timer >>

\* Save PDF on the submitted screen: the document is downloaded as an HTML file.
savePDF(currentDate, fresh) ==
    /\ Screen = "submitted"
    /\ outputs' = Append(outputs, [via |-> "save",
                                   content |-> generatePDFContent(currentDate, fresh)])
    /\ UNCHANGED << outsideForm, envVars, formVars, spouseVars, submissionMetadata,
                    timer >>

-----------------------------------------------------------------------------
(* Specifications. The page bounds neither the requests in flight nor the timers  *)
(* pending; the specifications do, in the guards below.                           *)

Room(n) == Len(dbQ) < n
TimerRoom == notifTimers < MaxNotifTimers

\* Two accounts on one browser: the login gate, the first two wizard steps, explicit
\* save, logout and the store.
Next ==
    \/ ToggleRegistering
    \/ \E e \in Emails : Room(MaxPending) /\ HandleRegister(e, "secret1", "secret1")
    \/ \E e \in Emails : Room(MaxPending) /\ HandleLogin(e, "secret1")
    \/ OnStep("Welcome") /\ ClickNext
    \/ ClickPrevious
    \/ ToggleAgreement
    \/ \E v \in {"", OwnName(currentUser)} : SetClientName(v)
    \/ Room(MaxPending) /\ ClickSave
    \/ Room(MaxPending) /\ HandleLogout
    \/ LoadSucceeds
    \/ LoadFails
    \/ TimerRoom /\ SaveSucceeds
    \/ SaveFails
    \/ NotifTimeout

Spec == Init /\ [][Next]_vars

\* One account, the whole wizard: every step, submission and Start New Checklist.
NextWizard ==
    \/ ToggleRegistering
    \/ Room(MaxPending) /\ HandleRegister("a@x.com", "secret1", "secret1")
    \/ Room(MaxPending) /\ HandleLogin("a@x.com", "secret1")
    \/ ClickNext
    \/ ClickPrevious
    \/ ToggleAgreement
    \/ StartNewChecklist
    \/ Room(MaxPending) /\ ClickSave
    \/ Room(MaxPending) /\ HandleLogout
    \/ Room(MaxPending) /\ HandleSubmit(clock, "uuid-1")
    \/ LoadSucceeds
    \/ LoadFails
    \/ TimerRoom /\ SaveSucceeds
    \/ SaveFails
    \/ NotifTimeout
    \/ SubmitTimeout

SpecWizard == Init /\ [][NextWizard]_vars

\* One account with the clock running: the autosave interval beside explicit saves.
NextAutosave ==
    \/ ToggleRegistering
    \/ Room(MaxOverlap) /\ HandleRegister("a@x.com", "secret1", "secret1")
    \/ Room(MaxOverlap) /\ HandleLogin("a@x.com", "secret1")
    \/ OnStep("Welcome") /\ ClickNext
    \/ ClickPrevious
    \/ ToggleAgreement
    \/ Room(MaxOverlap) /\ ClickSave
    \/ Room(MaxOverlap) /\ HandleLogout
    \/ Room(MaxOverlap) /\ Autosave
    \/ Tick
    \/ LoadSucceeds
    \/ LoadFails
    \/ TimerRoom /\ SaveSucceeds
    \/ SaveFails
    \/ NotifTimeout

SpecAutosave == Init /\ [][NextAutosave]_vars

\* One account, logout beside saves; every IndexedDB request completes in the end
\* (succeeds or fails) and every timer fires.
NextLogout ==
    \/ ToggleRegistering
    \/ Room(MaxOverlap) /\ HandleRegister("a@x.com", "secret1", "secret1")
    \/ Room(MaxOverlap) /\ HandleLogin("a@x.com", "secret1")
    \/ ToggleAgreement
    \/ Room(MaxOverlap) /\ ClickSave
    \/ Room(MaxOverlap) /\ HandleLogout
    \/ LoadSucceeds
    \/ LoadFails
    \/ TimerRoom /\ SaveSucceeds
    \/ SaveFails
    \/ NotifTimeout

RequestCompletes == LoadSucceeds \/ LoadFails \/ (TimerRoom /\ SaveSucceeds) \/ SaveFails

SpecLogout ==
    /\ Init
    /\ [][NextLogout]_vars
    /\ WF_vars(RequestCompletes)
    /\ WF_vars(NotifTimeout)

\* The 0-based index of a step.
StepOf(name) == CHOOSE i \in 0..lastStep : steps[i + 1] = name

\* The types and the values entered in the specifications below.
SomeIncomeTypes == {incomeTypes[1], incomeTypes[2]}
SomeAdjustmentTypes == {adjustmentTypes[1], adjustmentTypes[3]}
SomeCreditTypes == {creditTypes[1], creditTypes[4]}

\* One account on the three steps of the categorized lists.
NextCategories ==
    \/ ToggleRegistering
    \/ Room(MaxPending) /\ HandleRegister("a@x.com", "secret1", "secret1")
    \/ LoadSucceeds
    \/ LoadFails
    \/ ToggleAgreement
    \/ currentStep < StepOf("Credits & Deductions") /\ ClickNext
    \/ currentStep > StepOf("Income Information") /\ ClickPrevious
    \/ \E type \in SomeIncomeTypes : toggleIncome(type)
    \/ \E type \in SomeAdjustmentTypes : toggleAdjustment(type)
    \/ \E type \in SomeAdjustmentTypes : updateAdjustmentAmount(type, "100")
    \/ \E type \in SomeCreditTypes : toggleCredit(type)
    \/ \E type \in SomeCreditTypes : updateCreditDetails(type, "2 children")

SpecCategories == Init /\ [][NextCategories]_vars

\* What may be typed into the fields of the login screen.
TypedEmails == Emails \cup {""}
Passwords == {"", "abc", "secret1", "hunter22"}

\* Two accounts at the login gate: every outcome of registration and login, each
\* attempted and each logout made with no IndexedDB request pending.
NextAuth ==
    \/ ToggleRegistering
    \/ \E e \in TypedEmails, p, c \in Passwords :
           dbQ = << >> /\ HandleRegister(e, p, c)
    \/ \E e \in TypedEmails, p \in Passwords : dbQ = << >> /\ HandleLogin(e, p)
    \/ ToggleAgreement
    \/ dbQ = << >> /\ HandleLogout
    \/ LoadSucceeds
    \/ LoadFails
    \/ TimerRoom /\ SaveSucceeds
    \/ SaveFails
    \/ NotifTimeout

SpecAuth == Init /\ [][NextAuth]_vars

\* The ids of the dependents listed.
DependentIds == {dependents[i].id : i \in 1..Len(dependents)}

\* One account on the Dependents step, the clock read at each addition.
NextDependents ==
    \/ ToggleRegistering
    \/ Room(MaxPending) /\ HandleRegister("a@x.com", "secret1", "secret1")
    \/ LoadSucceeds
    \/ LoadFails
    \/ ToggleAgreement
    \/ currentStep < StepOf("Dependents") /\ ClickNext
    \/ \E time \in 1..MaxClock : Len(dependents) < MaxDependents /\ addDependent(time)
    \/ \E id \in DependentIds : removeDependent(id)
    \/ \E id \in DependentIds : updateDependent(id, "name", "Kid")

SpecDependents == Init /\ [][NextDependents]_vars

\* One account going forward through the wizard to submission; every IndexedDB
\* request completes in the end (succeeds or fails) and every timer fires.
NextSubmit ==
    \/ ToggleRegistering
    \/ Room(MaxPending) /\ HandleRegister("a@x.com", "secret1", "secret1")
    \/ Room(MaxPending) /\ HandleLogin("a@x.com", "secret1")
    \/ ToggleAgreement
    \/ ClickNext
    \/ Room(MaxPending) /\ HandleSubmit(clock, "uuid-1")
    \/ Room(MaxPending) /\ HandleLogout
    \/ StartNewChecklist
    \/ LoadSucceeds
    \/ LoadFails
    \/ TimerRoom /\ SaveSucceeds
    \/ SaveFails
    \/ NotifTimeout
    \/ SubmitTimeout

SpecSubmit ==
    /\ Init
    /\ [][NextSubmit]_vars
    /\ WF_vars(RequestCompletes)
    /\ WF_vars(NotifTimeout)
    /\ WF_vars(SubmitTimeout)

\* The files picked in the specification below, and the selections made of them.
Pdf == [name |-> "w2.pdf", type |-> "application/pdf"]
Photo == [name |-> "id.png", type |-> "image/png"]
Sheet == [name |-> "notes.txt", type |-> "text/plain"]
Selections == { << Pdf, Photo >>, << Sheet >> }

\* The file a record was made from.
Origin(record) == record.data.of

FileNames(files) == {files[i].name : i \in 1..Len(files)}

\* No file of the selection is in the list or on its way into it.
Fresh(files, field, list) ==
    /\ \A i \in 1..Len(list) : Origin(list[i]) \notin FileNames(files)
    /\ \A i \in 1..Len(uploads) :
           uploads[i].field = field => uploads[i].files # files

\* The files uploaded for a type of a categorized list.
FilesOf(list, type) ==
    IF IsSelected(list, type)
    THEN (CHOOSE item \in Range(list) : item.type = type).files
    ELSE << >>

UploadRoom == Len(uploads) < MaxUploads /\ progressTimers < MaxNotifTimers

\* One account uploading on the Document Uploads and Income Information steps, each
\* selection picked once for a list, the rasterizer and the image decoder free to fail.
NextUpload ==
    \/ ToggleRegistering
    \/ Room(MaxPending) /\ HandleRegister("a@x.com", "secret1", "secret1")
    \/ LoadSucceeds
    \/ LoadFails
    \/ ToggleAgreement
    \/ currentStep < StepOf("Income Information") /\ ClickNext
    \/ ScriptLoaded
    \/ \E files \in Selections :
           /\ UploadRoom
           /\ Fresh(files, "incomeDocuments", documentUploads.incomeDocuments)
           /\ handleFileUpload("incomeDocuments", files)
    \/ ~IsSelected(incomeData, incomeTypes[1]) /\ toggleIncome(incomeTypes[1])
    \/ \E files \in Selections :
           /\ UploadRoom
           /\ Fresh(files, "incomeData", FilesOf(incomeData, incomeTypes[1]))
           /\ handleIncomeFileUpload(incomeTypes[1], files)
    \/ \E i \in 1..Len(uploads), raster \in Rasterizations, imageLoads \in BOOLEAN :
           FileProcessed(i, raster, imageLoads)
    \/ ProgressTimeout

SpecUpload == Init /\ [][NextUpload]_vars

\* What is picked and typed in the specification below.
OnePage == [numPages |-> 1, failPage |-> 0, failKind |-> "none"]
Dates == {"11/5/2026", "11/6/2026"}
UUIDs == {"uuid-1", "uuid-2"}
FreshMetadata == {Metadata(t, u) : t \in clock..MaxClock, u \in UUIDs}

\* The files in a list and on their way into it.
Incoming(field, type) ==
    Len(SelectSeq(uploads, LAMBDA u : u.field = field /\ u.type = type))

\* One account filling the wizard step by step, submitting once and composing the
\* document: filing jointly or not, with or without a spouse name and a spouse
\* signature, dependents, a file for the spouse licence slot and for the general
\* list, categories selected with and without files.
NextCompose ==
    \/ ToggleRegistering
    \/ dbQ = << >> /\ HandleRegister("a@x.com", "secret1", "secret1")
    \/ LoadSucceeds
    \/ LoadFails
    \/ ToggleAgreement
    \/ dbQ = << >> /\ uploads = << >> /\ progressTimers = 0 /\ ClickNext
    \/ ToggleFilingJointly
    \/ SetSpouseName("Jo")
    \/ /\ Len(dependents) < MaxDependents - 1
       /\ \A i \in 1..Len(dependents) : dependents[i].name # ""
       /\ clock < MaxClock
       /\ addDependent(clock + 1)
    \/ \E i \in 1..Len(dependents), name \in {"Sam", "Kim"} :
           /\ dependents[i].name = ""
           /\ updateDependent(dependents[i].id, "name", name)
    \/ \E field \in {"spouseDL", "incomeDocuments"} :
           /\ UploadRoom
           /\ uploads = << >>
           /\ ~IsObject(Slot(documentUploads, field))
           /\ documentUploads.incomeDocuments = << >>
           /\ handleFileUpload(field, << Sheet >>)
    \/ \E type \in SomeIncomeTypes : toggleIncome(type)
    \/ /\ UploadRoom
       /\ uploads = << >>
       /\ Len(FilesOf(incomeData, incomeTypes[1])) + Incoming("incomeData", incomeTypes[1])
              < MaxFiles
       /\ handleIncomeFileUpload(incomeTypes[1], << Sheet >>)
    \/ FileProcessed(1, OnePage, TRUE)
    \/ ProgressTimeout
    \/ toggleAdjustment(adjustmentTypes[1])
    \/ toggleCredit(creditTypes[1])
    \/ SetSpouseSignature("Jo Doe")
    \/ dbQ = << >> /\ uploads = << >> /\ HandleSubmit(clock, "uuid-1")
    \/ TimerRoom /\ SaveSucceeds
    \/ SaveFails
    \/ NotifTimeout
    \/ SubmitTimeout
    \/ Len(outputs) < MaxOutputs /\ downloadPDF(TRUE, "11/5/2026", Metadata(clock, "uuid-1"))
    \/ Len(outputs) < MaxOutputs /\ savePDF("11/5/2026", Metadata(clock, "uuid-1"))

SpecCompose == Init /\ [][NextCompose]_vars

\* One account submitting, composing documents on the submitted screen with a popup
\* blocked or not, starting a new checklist and submitting again.
\* A submission is no earlier than a millisecond after the one before.
NextMetadata ==
    \/ ToggleRegistering
    \/ dbQ = << >> /\ HandleRegister("a@x.com", "secret1", "secret1")
    \/ LoadSucceeds
    \/ LoadFails
    \/ ToggleAgreement
    \/ dbQ = << >> /\ ClickNext
    \/ \E time \in (clock + 1)..(MaxClock - 1), uuid \in UUIDs :
           dbQ = << >> /\ HandleSubmit(time, uuid)
    \/ TimerRoom /\ SaveSucceeds
    \/ SaveFails
    \/ NotifTimeout
    \/ SubmitTimeout
    \/ StartNewChecklist
    \/ \E popup \in BOOLEAN, date \in Dates, fresh \in FreshMetadata :
           Len(outputs) <= MaxOutputs /\ downloadPDF(popup, date, fresh)
    \/ \E date \in Dates, fresh \in FreshMetadata :
           Len(outputs) <= MaxOutputs /\ savePDF(date, fresh)

SpecMetadata == Init /\ [][NextMetadata]_vars

\* One account on the Income Information, Adjustments and Credits & Deductions steps:
\* types selected and deselected, amounts and details entered, files uploaded for a
\* selected type, also while it is deselected and reselected; an image may fail.
NextCategoryFiles ==
    \/ ToggleRegistering
    \/ dbQ = << >> /\ HandleRegister("a@x.com", "secret1", "secret1")
    \/ LoadSucceeds
    \/ LoadFails
    \/ ToggleAgreement
    \/ dbQ = << >> /\ currentStep < StepOf("Credits & Deductions") /\ ClickNext
    \/ \E type \in SomeIncomeTypes : toggleIncome(type)
    \/ \E files \in {<< Sheet >>, << Photo, Sheet >>} :
           /\ UploadRoom
           /\ Len(FilesOf(incomeData, incomeTypes[1]))
                  + Incoming("incomeData", incomeTypes[1]) < MaxFiles
           /\ handleIncomeFileUpload(incomeTypes[1], files)
    \/ toggleAdjustment(adjustmentTypes[1])
    \/ updateAdjustmentAmount(adjustmentTypes[1], "100")
    \/ /\ UploadRoom
       /\ Len(FilesOf(adjustmentData, adjustmentTypes[1]))
              + Incoming("adjustmentData", adjustmentTypes[1]) < MaxFiles
       /\ handleAdjustmentFileUpload(adjustmentTypes[1], << Sheet >>)
    \/ toggleCredit(creditTypes[1])
    \/ updateCreditDetails(creditTypes[1], "2 children")
    \/ /\ UploadRoom
       /\ Len(FilesOf(creditData, creditTypes[1]))
              + Incoming("creditData", creditTypes[1]) < MaxFiles
       /\ handleCreditFileUpload(creditTypes[1], << Sheet >>)
    \/ \E i \in 1..Len(uploads), imageLoads \in BOOLEAN :
           FileProcessed(i, OnePage, imageLoads)
    \/ ProgressTimeout

SpecCategoryFiles == Init /\ [][NextCategoryFiles]_vars

\* Three emails on one browser, one of them with "_data" in it: registration, login,
\* the first wizard steps, logout and the page loaded again at any moment at which no
\* IndexedDB request is pending.
NextStartup ==
    \/ ToggleRegistering
    \/ \E e \in Accounts : dbQ = << >> /\ HandleRegister(e, "secret1", "secret1")
    \/ \E e \in Accounts : dbQ = << >> /\ HandleLogin(e, "secret1")
    \/ LoadSucceeds
    \/ LoadFails
    \/ ToggleAgreement
    \/ dbQ = << >> /\ currentStep < StepOf("Spouse Information") /\ ClickNext
    \/ dbQ = << >> /\ HandleLogout
    \/ TimerRoom /\ SaveSucceeds
    \/ SaveFails
    \/ NotifTimeout
    \/ Startup

SpecStartup == Init /\ [][NextStartup]_vars

\* The slots picked for in the specification below, and what the rasterizer does: a
\* PDF of no page, one of the most pages, one whose first page throws.
SlotsPicked == {"clientDL", "irsPin"}
SlotRasters ==
    {raster \in Rasterizations :
        \/ raster.failKind = "none" /\ raster.numPages \in {0, MaxPages}
        \/ raster.failKind = "throws" /\ raster.numPages = 1}

\* One account on the Document Uploads step: a PDF picked for a slot and an image for
\* the general list, also while another upload runs, the rasterizer free to fail.
NextSlots ==
    \/ ToggleRegistering
    \/ dbQ = << >> /\ HandleRegister("a@x.com", "secret1", "secret1")
    \/ LoadSucceeds
    \/ LoadFails
    \/ ToggleAgreement
    \/ dbQ = << >> /\ currentStep < StepOf("Document Uploads") /\ ClickNext
    \/ ScriptLoaded
    \/ \E field \in SlotsPicked : UploadRoom /\ handleFileUpload(field, << Pdf, Photo >>)
    \/ /\ UploadRoom
       /\ Len(documentUploads.incomeDocuments) + Incoming("incomeDocuments", "")
              < MaxFiles - 1
       /\ handleFileUpload("incomeDocuments", << Photo >>)
    \/ \E i \in 1..Len(uploads), raster \in SlotRasters, imageLoads \in BOOLEAN :
           FileProcessed(i, raster, imageLoads)
    \/ ProgressTimeout

SpecSlots == Init /\ [][NextSlots]_vars

-----------------------------------------------------------------------------
(* Properties *)

LoadPending == \E i \in 1..Len(dbQ) : dbQ[i].op = "load"

\* The form state a stored record stands for, as loadUserData restores it.
FormOf(savedData) ==
    << LoadedStep(savedData), LoadedFilingJointly(savedData),
       LoadedClientInfo(savedData), LoadedAgreement(savedData),
       << LoadedList(savedData.dependents), LoadedDocumentUploads(savedData),
          LoadedList(savedData.incomeData), LoadedList(savedData.adjustmentData),
          LoadedList(savedData.creditData) >> >>

\* C1: account isolation. Once the load that follows a login under E has completed,
\* the form state is E's stored record or the initial empty state, so that no save
\* writes data entered under one email into the record of another. Each user entering
\* only their own name, this says: the form of a loaded session holds no other user's
\* name, and no stored record holds the name of a user other than the one it is
\* keyed by.
C1_AccountIsolation ==
    /\ (SessionActive /\ ~LoadPending) =>
           clientInfo.name \in {"", OwnName(currentUser)}
    /\ \A r \in db : r.clientInfo.name \in {"", OwnName(r.email)}

\* C2: the credential is stored apart from the account record: no record of the
\* store holds the password of the account it is keyed by.
C2_NoPasswordInRecord ==
    \A r \in db :
        ~ ( /\ "password" \in DOMAIN r
            /\ Pwd(r.email) # ""
            /\ r.password = Pwd(r.email) )

\* C3: the step index stays within 0..lastStep whatever is done, and Next pressed on
\* the first step with the acceptance flag unset leaves the index where it is.
C3_StepInRange ==
    /\ [](currentStep \in 0..lastStep)
    /\ [][(ClickNext /\ currentStep = 0 /\ ~userAgreementAccepted)
              => currentStep' = currentStep]_vars

\* The wizard back on the first step, acceptance unset, after a save on the last step.
C3_Witness ==
    /\ Screen = "wizard"
    /\ currentStep = 0
    /\ ~userAgreementAccepted
    /\ \E r \in db : r.currentStep = lastStep

\* C4 as claimed: in every transition the step index stays or moves by exactly one.
C4_NoSkip ==
    [][currentStep' \in {currentStep, currentStep + 1, currentStep - 1}]_vars

\* C4 amended: the step index stays or moves by exactly one, except that Start New
\* Checklist sets it to 0 and the load on login sets it to the stored record's index.
C4_StepMoves ==
    [][ \/ currentStep' \in {currentStep, currentStep + 1, currentStep - 1}
        \/ StartNewChecklist /\ currentStep' = 0
        \/ /\ LoadSucceeds
           /\ Get(db, Head(dbQ).email) # Undefined
           /\ currentStep' = Get(db, Head(dbQ).email).currentStep ]_vars

\* The submitted screen on the first step: submission happens on the last step and the
\* submitted screen has no Previous, so a load has moved the index from lastStep to 0.
C4_Witness == submitted /\ isLoggedIn /\ currentStep = 0

\* C5 as claimed: what is loaded after a save is deep-equal to what was saved.
C5_RoundTrip ==
    SessionActive =>
        \A e \in Emails : Get(Put(db, e, UserData), e) = UserData

\* C5 amended: what is loaded after a save is the saved record with the key field
\* email added: every field saved comes back unchanged, none is dropped, email is the
\* key it was saved under, and loadUserData restores the form state it was built from.
C5_RoundTripKeyed ==
    SessionActive =>
        \A e \in Emails :
            LET got == Get(Put(db, e, UserData), e) IN
            /\ DOMAIN got = DOMAIN UserData \cup {"email"}
            /\ got.email = e
            /\ \A f \in DOMAIN UserData : got[f] = UserData[f]
            /\ FormOf(got) = formVars

\* Two records stored, the session's own differing from what a save would write now.
C5_Witness ==
    /\ SessionActive
    /\ Cardinality(db) = 2
    /\ Get(db, currentUser) # StoredObject(currentUser, UserData)

\* C6: in an active session a save is initiated within every 30 s of session time,
\* whatever the user edits meanwhile.
C6_AutosaveEveryInterval ==
    SessionActive => sinceSave <= AutosaveSeconds

\* C7: overlapping saves never tear. The store changes only when a put succeeds; the
\* put leaves under the email exactly the snapshot its own save took, field for
\* field, whatever was stored before, and the saves behind it stay queued in order,
\* so that the last one to finish is the last one issued.
C7_WholeRecordLastWriteWins ==
    /\ [][db' # db => SaveSucceeds]_vars
    /\ [][SaveSucceeds =>
            LET q == Head(dbQ) IN
            /\ \E r \in db' : r.email = q.email
            /\ \A r \in db' :
                   r.email = q.email =>
                       /\ DOMAIN r = DOMAIN q.data \cup {"email"}
                       /\ \A f \in DOMAIN q.data : r[f] = q.data[f]
            /\ {r \in db' : r.email # q.email} = {r \in db : r.email # q.email}
            /\ dbQ' = Tail(dbQ) ]_vars

\* Two saves of one account in flight with different snapshots, over a stored record
\* that differs from both.
C7_Witness ==
    /\ Len(dbQ) = 2
    /\ dbQ[1].op = "save" /\ dbQ[2].op = "save"
    /\ dbQ[1].email = dbQ[2].email
    /\ dbQ[1].data # dbQ[2].data
    /\ Get(db, dbQ[1].email) # Undefined
    /\ Get(db, dbQ[1].email) # StoredObject(dbQ[1].email, dbQ[1].data)
    /\ Get(db, dbQ[1].email) # StoredObject(dbQ[1].email, dbQ[2].data)

LogoutPending == \E i \in 1..Len(dbQ) : dbQ[i].cont = "logout"

\* C8: logout saves, then clears the session. Logout issues a save of the form state
\* under the current user and leaves the session as it is; the session is cleared
\* only as that save finishes, and it is cleared in the end whether the save
\* succeeded or failed.
C8_LogoutSavesThenClears ==
    /\ [][HandleLogout =>
            /\ dbQ' = Append(dbQ, [op |-> "save", email |-> currentUser,
                                   data |-> UserData, cont |-> "logout"])
            /\ UNCHANGED sessionVars ]_vars
    /\ [][(isLoggedIn /\ ~isLoggedIn') =>
            /\ dbQ # << >>
            /\ Head(dbQ).op = "save"
            /\ Head(dbQ).cont = "logout"
            /\ dbQ' = Tail(dbQ)
            /\ currentUser' = ""
            /\ loginEmail' = "" /\ loginPassword' = "" /\ confirmPassword' = "" ]_vars
    /\ LogoutPending ~> ~isLoggedIn

\* Logged out again with the login fields cleared and the logout's save stored.
C8_Witness ==
    /\ ~isLoggedIn
    /\ currentUser = "" /\ loginEmail = "" /\ loginPassword = ""
    /\ db # {}
    /\ ~LogoutPending

\* C9: a failing save or load is a no-op. It changes no form state, no stored record
\* and no credential; a failing save shows no notification; the session is untouched
\* and the caller goes on as after a success (logout clears the session).
C9_FailureIsNoOp ==
    /\ [][SaveFails =>
            /\ formVars' = formVars
            /\ db' = db
            /\ localStorage' = localStorage
            /\ showSaveNotification' = showSaveNotification
            /\ notifTimers' = notifTimers
            /\ loginError' = loginError
            /\ IF Head(dbQ).cont = "logout"
               THEN ~isLoggedIn' /\ currentUser' = ""
               ELSE sessionVars' = sessionVars ]_vars
    /\ [][LoadFails =>
            /\ formVars' = formVars
            /\ db' = db
            /\ localStorage' = localStorage
            /\ sessionVars' = sessionVars
            /\ loginError' = loginError
            /\ showSaveNotification' = showSaveNotification ]_vars

\* Logged out of a registered account with nothing stored and nothing shown: the
\* save of the logout has failed.
C9_Witness ==
    /\ ~isLoggedIn
    /\ loginEmail = ""
    /\ \E e \in Emails : Pwd(e) # ""
    /\ db = {}
    /\ dbQ = << >>
    /\ ~showSaveNotification /\ notifTimers = 0

\* C10: the store holds at most one record per email, and saving the same record
\* under the same email twice leaves the store as saving it once.
C10_OneRecordPerEmail ==
    /\ \A r1, r2 \in db : r1.email = r2.email => r1 = r2
    /\ SessionActive =>
           \A e \in Emails :
               Put(Put(db, e, UserData), e, UserData) = Put(db, e, UserData)

\* Both accounts stored, the current one about to be overwritten by a different record.
C10_Witness ==
    /\ Cardinality(db) = 2
    /\ SessionActive
    /\ dbQ # << >>
    /\ Head(dbQ).op = "save"
    /\ Get(db, Head(dbQ).email) # StoredObject(Head(dbQ).email, Head(dbQ).data)

\* C11: for each categorized list and every type not selected, selecting the type and
\* then at once deselecting it gives back the list as it was, same records in the
\* same order.
C11_ToggleTwiceRestores ==
    /\ \A i \in 1..Len(incomeTypes) :
           LET type == incomeTypes[i] IN
           ~IsSelected(incomeData, type) =>
               Toggled(Toggled(incomeData, type, NewIncome(type)),
                       type, NewIncome(type)) = incomeData
    /\ \A i \in 1..Len(adjustmentTypes) :
           LET type == adjustmentTypes[i] IN
           ~IsSelected(adjustmentData, type) =>
               Toggled(Toggled(adjustmentData, type, NewAdjustment(type)),
                       type, NewAdjustment(type)) = adjustmentData
    /\ \A i \in 1..Len(creditTypes) :
           LET type == creditTypes[i] IN
           ~IsSelected(creditData, type) =>
               Toggled(Toggled(creditData, type, NewCredit(type)),
                       type, NewCredit(type)) = creditData

\* Each list holds an entry, with an amount and details entered, beside types not
\* selected; the income list was filled in the order opposite to the page's.
C11_Witness ==
    /\ Len(incomeData) = 2 /\ incomeData[1].type = incomeTypes[2]
    /\ \E i \in 1..Len(adjustmentData) : adjustmentData[i].amount # ""
    /\ \E i \in 1..Len(creditData) : creditData[i].details # ""
    /\ Len(creditData) = 1

\* C12: a session for E begins only with a registration of E (all fields filled,
\* password equal to its confirmation, at least 6 characters, no credential stored
\* for E) or with a login whose password is E's stored credential; a registration or
\* login that fails a check sets the error message and leaves the session, the
\* credentials and the form state as they were; a stored credential is never
\* overwritten.
C12_SessionOnlyByValidAuth ==
    /\ [][(~isLoggedIn /\ isLoggedIn') =>
            /\ loginEmail' \in Emails
            /\ currentUser' = loginEmail'
            /\ \/ /\ isRegistering
                  /\ loginPassword' # "" /\ confirmPassword' = loginPassword'
                  /\ PasswordLength(loginPassword') >= MinPasswordLength
                  /\ localStorage[loginEmail'] = ""
                  /\ localStorage' = [localStorage EXCEPT ![loginEmail'] = loginPassword']
               \/ /\ ~isRegistering
                  /\ localStorage[loginEmail'] # ""
                  /\ loginPassword' = localStorage[loginEmail']
                  /\ localStorage' = localStorage ]_vars
    /\ [][\A e \in TypedEmails, p, c \in Passwords :
            (/\ HandleRegister(e, p, c) \/ HandleLogin(e, p)
             /\ loginError' # "") =>
                UNCHANGED << isLoggedIn, currentUser, isRegistering, localStorage,
                             formVars, db, dbQ >> ]_vars
    /\ [][\A e \in Emails :
            localStorage[e] # "" => localStorage'[e] = localStorage[e]]_vars

\* A registration refused for an email that has a credential, with another password
\* typed, while the form holds what the last session left.
C12_Witness ==
    /\ ~isLoggedIn
    /\ loginError = "An account with this email already exists"
    /\ loginPassword # Pwd(loginEmail)
    /\ userAgreementAccepted
    /\ \E e \in Emails : e # loginEmail /\ Pwd(e) # ""

\* C13: no two dependents of the list share an id, whatever was added, removed and
\* updated.
C13_UniqueDependentIds ==
    \A i, j \in 1..Len(dependents) :
        i # j => dependents[i].id # dependents[j].id

SubmitPending ==
    submitTimer \/ \E i \in 1..Len(dbQ) : dbQ[i].op = "save" /\ dbQ[i].cont = "submit"

InSelectionOrder(list, files) ==
    \A p, q \in 1..Len(list) :
        (p < q /\ Origin(list[p]) \in FileNames(files)
               /\ Origin(list[q]) \in FileNames(files)) =>
            LET P == CHOOSE k \in 1..Len(files) : files[k].name = Origin(list[p])
                Q == CHOOSE k \in 1..Len(files) : files[k].name = Origin(list[q])
            IN /\ P <= Q
               /\ P = Q => /\ list[p].data.page < list[q].data.page
                           /\ \A m \in p..q : Origin(list[m]) = Origin(list[p])

\* The i-th handler goes from the file it awaited to the next one of its selection,
\* or ends after the last; the other handlers stay as they are.
Advanced(i) ==
    IF uploads[i].done + 1 < Len(uploads[i].files)
    THEN /\ Len(uploads') = Len(uploads)
         /\ uploads'[i].done = uploads[i].done + 1
         /\ uploads'[i].files = uploads[i].files
         /\ uploads'[i].field = uploads[i].field
         /\ \A j \in 1..Len(uploads) : j # i => uploads'[j] = uploads[j]
    ELSE uploads' = RemoveAt(uploads, i)

\* C15: within one selection the files are normalized one after another, and their
\* records reach the target list in selection order, each file's records together
\* and in page order. A handler awaits one file of its selection at a time, the next
\* one only when processFile for the one before has resolved or rejected; the
\* general list grows by the records of that file at its end; the records of a
\* categorized selection are collected in that order and appended together.
C15_SequentialInOrder ==
    /\ [](\A files \in Selections :
            /\ InSelectionOrder(documentUploads.incomeDocuments, files)
            /\ \A i \in 1..Len(incomeTypes) :
                   InSelectionOrder(FilesOf(incomeData, incomeTypes[i]), files)
            /\ \A i \in 1..Len(uploads) :
                   InSelectionOrder(uploads[i].newFiles, files))
    /\ [](\A i \in 1..Len(uploads) : uploads[i].done < Len(uploads[i].files))
    /\ [][uploads' # uploads =>
            \/ /\ Len(uploads') = Len(uploads) + 1
               /\ SubSeq(uploads', 1, Len(uploads)) = uploads
               /\ uploads'[Len(uploads')].done = 0
            \/ \E i \in 1..Len(uploads) : Advanced(i) ]_vars
    /\ [][documentUploads'.incomeDocuments # documentUploads.incomeDocuments =>
            LET old == documentUploads.incomeDocuments
                new == documentUploads'.incomeDocuments
            IN /\ Len(new) > Len(old)
               /\ SubSeq(new, 1, Len(old)) = old
               /\ \E i \in 1..Len(uploads) :
                      /\ Advanced(i)
                      /\ uploads[i].field = "incomeDocuments"
                      /\ \A k \in Len(old) + 1 .. Len(new) :
                             Origin(new[k]) =
                                 uploads[i].files[uploads[i].done + 1].name ]_vars

\* Both pages of the PDF and the photo of one selection, in the general list and in
\* the files of an income type.
C15_Witness ==
    /\ \E p \in 1..Len(documentUploads.incomeDocuments) :
           /\ p + 2 <= Len(documentUploads.incomeDocuments)
           /\ documentUploads.incomeDocuments[p].data.page = 1
           /\ documentUploads.incomeDocuments[p + 1].data.page = 2
           /\ Origin(documentUploads.incomeDocuments[p + 2]) = Photo.name
    /\ LET files == FilesOf(incomeData, incomeTypes[1]) IN
           /\ Len(files) >= 3
           /\ files[1].data.page = 1 /\ files[2].data.page = 2
           /\ \E q \in 3..Len(files) : Origin(files[q]) = Photo.name

\* C16: at most one file normalization is in flight at any time, and the records of
\* two selections are never interleaved in the general income-documents list.
C16_NoConcurrentUploads ==
    /\ Len(uploads) <= 1
    /\ LET list == documentUploads.incomeDocuments IN
       \A files \in Selections :
           \A p, q \in 1..Len(list) :
               (p < q /\ Origin(list[p]) \in FileNames(files)
                      /\ Origin(list[q]) \in FileNames(files)) =>
                   \A m \in p..q : Origin(list[m]) \in FileNames(files)

\* The records of every list of the form state and of every running handler.
AllRecords ==
    Range(documentUploads.incomeDocuments)
    \cup UNION {Range(incomeData[i].files) : i \in 1..Len(incomeData)}
    \cup UNION {Range(uploads[i].newFiles) : i \in 1..Len(uploads)}

\* C17: a PDF of N pages normalized with the rasterizer loaded and succeeding gives
\* exactly N records in page order, the i-th named "<original name> - Page i", of
\* type image/jpeg and holding the image of page i.
C17_PdfPagesNamed ==
    /\ \A raster \in Rasterizations, imageLoads \in BOOLEAN :
           raster.failKind = "none" =>
               LET result == processFile(Pdf, TRUE, raster, imageLoads) IN
               /\ result.resolved
               /\ Len(result.value) = raster.numPages
               /\ \A i \in 1..raster.numPages :
                      /\ result.value[i].name = Pdf.name \o " - Page " \o ToString(i)
                      /\ result.value[i].type = "image/jpeg"
                      /\ result.value[i].data = PageImage(Pdf, i)
    /\ \A record \in AllRecords :
           record.data.kind = "jpeg" =>
               /\ record.name = record.data.of \o " - Page " \o ToString(record.data.page)
               /\ record.type = "image/jpeg"

\* The last page of the longest PDF is in the general list under its name.
C17_Witness ==
    \E i \in 1..Len(documentUploads.incomeDocuments) :
        /\ i = MaxPages
        /\ documentUploads.incomeDocuments[i].name =
               "w2.pdf - Page " \o ToString(MaxPages)
        /\ documentUploads.incomeDocuments[i].data.page = MaxPages

\* C18: a PDF normalized while the rasterizer is not loaded, or whose rasterization
\* throws (loading the document or at any page), resolves with exactly one record:
\* named after the file, of the file's declared type application/pdf, holding the
\* raw file.
C18_RasterizerFallback ==
    /\ \A loaded \in BOOLEAN, raster \in Rasterizations, imageLoads \in BOOLEAN :
           (~loaded \/ raster.failKind \in {"load", "throws"}) =>
               LET result == processFile(Pdf, loaded, raster, imageLoads) IN
               /\ result.resolved
               /\ result.value =
                      << [name |-> "w2.pdf", type |-> "application/pdf",
                          data |-> RawData(Pdf)] >>
    /\ \A record \in AllRecords :
           (record.data.kind = "raw" /\ record.data.of = Pdf.name) =>
               record.name = "w2.pdf" /\ record.type = "application/pdf"

\* The raw PDF is in the general list and its pages are in the files of the income
\* type: the same file normalized both ways.
C18_Witness ==
    /\ \E i \in 1..Len(documentUploads.incomeDocuments) :
           /\ documentUploads.incomeDocuments[i].name = "w2.pdf"
           /\ documentUploads.incomeDocuments[i].data.kind = "raw"
    /\ \E record \in Range(FilesOf(incomeData, incomeTypes[1])) :
           record.data.kind = "jpeg"

\* C19: when a page of a PDF gets no 2D context, the normalization of the file
\* rejects and nothing of the file is added to the form state or to what a handler
\* has collected.
C19_MissingContextRejects ==
    [][\A i \in 1..Len(uploads), raster \in Rasterizations :
          (/\ raster.failKind = "nocontext"
           /\ uploads[i].files[uploads[i].done + 1].type = "application/pdf"
           /\ uploads[i].loaded
           /\ FileProcessed(i, raster, TRUE)) =>
              /\ ~processFile(uploads[i].files[uploads[i].done + 1], TRUE,
                              raster, TRUE).resolved
              /\ documentUploads' = documentUploads
              /\ incomeData' = incomeData
              /\ \A j \in 1..Len(uploads') : uploads'[j].newFiles = << >> ]_vars

\* C20: a normalization that does not reject gives a list that is not empty, and
\* never some but not all of the pages of a PDF.
C20_NonEmptyNoPrefix ==
    [][\A i \in 1..Len(uploads), raster \in Rasterizations, imageLoads \in BOOLEAN :
          FileProcessed(i, raster, imageLoads) =>
              LET file == uploads[i].files[uploads[i].done + 1]
                  result == processFile(file, uploads[i].loaded, raster, imageLoads)
              IN result.resolved =>
                     /\ result.value # << >>
                     /\ \A k \in 1..Len(result.value) :
                            result.value[k].data.kind = "jpeg" =>
                                Len(result.value) = raster.numPages ]_vars

\* The document generatePDFContent gives in the current state.
Composed == generatePDFContent("11/5/2026", Metadata(clock, "uuid-1"))

Headings(content) == {content.blocks[i].heading : i \in 1..Len(content.blocks)}

\* The blocks of the document with the given heading, in document order.
BlocksOf(content, heading) == SelectSeq(content.blocks, LAMBDA b : b.heading = heading)

\* C21: the composed document has the section of a category (income sources,
\* adjustments, credits and deductions), header included, exactly when the list of
\* that category is not empty; so has every document composed after the one
\* submission, the selection being fixed from then on.
C21_CategorySectionIffSelected ==
    /\ "Income Sources" \in Headings(Composed) <=> incomeData # << >>
    /\ "Income Adjustments" \in Headings(Composed) <=> adjustmentData # << >>
    /\ "Credits & Deductions" \in Headings(Composed) <=> creditData # << >>
    /\ \A k \in 1..Len(outputs) :
           /\ "Income Sources" \in Headings(outputs[k].content) <=> incomeData # << >>
           /\ "Income Adjustments" \in Headings(outputs[k].content)
                  <=> adjustmentData # << >>
           /\ "Credits & Deductions" \in Headings(outputs[k].content)
                  <=> creditData # << >>

\* A document was composed with an income section and without a credits section.
C21_Witness ==
    /\ outputs # << >>
    /\ "Income Sources" \in Headings(outputs[1].content)
    /\ "Credits & Deductions" \notin Headings(outputs[1].content)
    /\ creditData = << >>

\* The document sections of the Uploaded Documents block with the given title.
UploadedSections(content, title) ==
    SelectSeq(BlocksOf(content, "Uploaded Documents")[1].parts,
              LAMBDA section : section.title = title)

\* C22: on the submitted screen the document has the spouse information block exactly
\* when filing jointly with a spouse name given, and has the spouse signature block,
\* the spouse signature block of the declaration and the section of the spouse's
\* driver's licence only then.
C22_SpouseBlocksOnlyJointAndNamed ==
    Screen = "submitted" =>
        LET joint == filingJointly /\ spouseInfo.name # "" IN
        /\ "Spouse Information" \in Headings(Composed) <=> joint
        /\ "Spouse Signature" \in Headings(Composed) => joint
        /\ "Spouse Signature:" \in Headings(Composed) => joint
        /\ UploadedSections(Composed, "Spouse Driver's License") # << >> => joint

\* C23: on the submitted screen, with no slot filled and the general list empty the
\* document has no Uploaded Documents block, and the section of a selected category
\* without files has no document section.
C23_EmptyGroupsOmitted ==
    Screen = "submitted" =>
        /\ ((\A field \in SlotNames : ~IsObject(Slot(documentUploads, field)))
            /\ documentUploads.incomeDocuments = << >>)
               => "Uploaded Documents" \notin Headings(Composed)
        /\ \A i \in 1..Len(incomeData) :
               incomeData[i].files = << >> =>
                   BlocksOf(Composed, "Income Sources")[1].parts[i].images = << >>
        /\ \A i \in 1..Len(adjustmentData) :
               adjustmentData[i].files = << >> =>
                   BlocksOf(Composed, "Income Adjustments")[1].parts[i].images = << >>
        /\ \A i \in 1..Len(creditData) :
               creditData[i].files = << >> =>
                   BlocksOf(Composed, "Credits & Deductions")[1].parts[i].images = << >>

\* The headings of dependent blocks.
DependentHeadings == {"Dependent " \o ToString(n) : n \in 1..MaxDependents}

\* The dependent blocks of a document, in document order.
DependentBlocks(content) ==
    SelectSeq(content.blocks, LAMBDA b : b.heading \in DependentHeadings)

\* The document shows the dependents and the selected income types of the state.
ShowsDependentsAndIncome(content) ==
    LET blocks == DependentBlocks(content)
        income == BlocksOf(content, "Income Sources")
    IN
    /\ Len(blocks) = Len(dependents)
    /\ \A i \in 1..Len(dependents) :
           /\ blocks[i].heading = "Dependent " \o ToString(i)
           /\ blocks[i].rows[1] = Row("Name:", dependents[i].name)
    /\ incomeData # << >> =>
           /\ Len(income) = 1
           /\ Len(income[1].parts) = Len(incomeData)
           /\ \A i \in 1..Len(incomeData) :
                  income[1].parts[i].row =
                      [label |-> incomeData[i].type,
                       value |-> ToString(Len(incomeData[i].files)) \o " document(s)"]

\* C24: once the form is submitted, the composed document has one block per
\* dependent, in list order and showing its name, and for every selected income type
\* one row with the label of the type and "k document(s)", k the number of its files.
C24_DependentsAndIncomeRows ==
    Screen = "submitted" =>
        /\ ShowsDependentsAndIncome(Composed)
        /\ \A k \in 1..Len(outputs) : ShowsDependentsAndIncome(outputs[k].content)

\* A document composed for dependents Sam and Kim, W-2 forms without a file and a
\* second income type.
C24_Witness ==
    /\ Len(outputs) > 0
    /\ Len(DependentBlocks(outputs[1].content)) > 1
    /\ DependentBlocks(outputs[1].content)[1].rows[1].value = "Sam"
    /\ DependentBlocks(outputs[1].content)[2].rows[1].value = "Kim"
    /\ \E i \in 1..Len(incomeData) :
           BlocksOf(outputs[1].content, "Income Sources")[1].parts[i].row =
               [label |-> "W-2 Forms (Employment Income)", value |-> "0 document(s)"]
    /\ Len(incomeData) > 1

\* The submission metadata section of a document.
MetadataRows(content) == BlocksOf(content, "Submission Metadata")[1].rows

\* A document with its generated-at date and its date rows blanked.
WithoutDate(content) ==
    [content EXCEPT
        !.generated = "",
        !.blocks = [i \in 1..Len(content.blocks) |->
                       [content.blocks[i] EXCEPT
                           !.rows = [r \in 1..Len(content.blocks[i].rows) |->
                                        IF content.blocks[i].rows[r].label = "Date:"
                                        THEN Row("Date:", "")
                                        ELSE content.blocks[i].rows[r]]]]]

\* The metadata changes when a submission starts with none held, and when a new
\* checklist is started.
MetadataOncePerSubmission ==
    submissionMetadata' # submissionMetadata =>
        \/ submissionMetadata = Null /\ ~isGeneratingPDF /\ isGeneratingPDF'
        \/ submissionMetadata' = Null /\ submitted /\ ~submitted'

\* A document is composed on the submitted screen from the metadata the screen shows,
\* and but for its dates it is what any call of generatePDFContent gives there.
ComposedFromHeldMetadata ==
    outputs' # outputs =>
        LET content == outputs'[Len(outputs')].content IN
        /\ Screen = "submitted"
        /\ submissionMetadata # Null
        /\ submissionMetadata' = submissionMetadata
        /\ MetadataRows(content)[1].value = LocaleString(submissionMetadata.timestamp)
        /\ MetadataRows(content)[2].value = submissionMetadata.referenceId
        /\ \A date \in Dates, fresh \in FreshMetadata :
               WithoutDate(content) = WithoutDate(generatePDFContent(date, fresh))

\* C25: the metadata is made once per submission; every document composed after it,
\* printed or saved, carries the reference identifier and the timestamp the
\* submitted screen shows, and two documents of one submission differ at most in
\* their dates.
C25_SameMetadataPerSubmission ==
    /\ [][MetadataOncePerSubmission /\ ComposedFromHeldMetadata]_vars
    /\ [](\A i, j \in 1..Len(outputs) :
              MetadataRows(outputs[i].content)[1] = MetadataRows(outputs[j].content)[1]
                  => WithoutDate(outputs[i].content) = WithoutDate(outputs[j].content))

\* A document printed and a document saved after one submission, on different
\* dates, carrying the metadata held.
C25_Witness ==
    /\ Len(outputs) > 1
    /\ outputs[1].via = "print"
    /\ outputs[2].via = "save"
    /\ outputs[1].content.generated # outputs[2].content.generated
    /\ MetadataRows(outputs[1].content) = MetadataRows(outputs[2].content)
    /\ submissionMetadata # Null
    /\ MetadataRows(outputs[2].content)[2].value = submissionMetadata.referenceId
    /\ submissionMetadata.timestamp > 1

\* The entry of a selected type.
EntryOf(list, type) == CHOOSE item \in Range(list) : item.type = type

\* Deselecting and reselecting a selected type leaves an entry as first selected,
\* and the entries of the other types as they are, in their order.
ReselectedEmpty(list, type, entry) ==
    LET after == Toggled(Toggled(list, type, entry), type, entry) IN
    /\ IsSelected(after, type)
    /\ EntryOf(after, type).files = << >>
    /\ EntryOf(after, type) = entry
    /\ SelectSeq(after, LAMBDA item : item.type # type)
           = SelectSeq(list, LAMBDA item : item.type # type)
    /\ Len(after) = Len(list)

\* C26: for every category and every selected type, deselecting the type removes its
\* entry with its files and amount or details, all else as it was, and reselecting it
\* then gives an entry with no files and an empty amount or details, whatever the
\* entry held, the entries of the other types unchanged.
C26_ReselectGivesEmptyEntry ==
    /\ [](/\ \A i \in 1..Len(incomeData) :
                ReselectedEmpty(incomeData, incomeData[i].type,
                                [type |-> incomeData[i].type, files |-> << >>])
          /\ \A i \in 1..Len(adjustmentData) :
                ReselectedEmpty(adjustmentData, adjustmentData[i].type,
                                [type |-> adjustmentData[i].type, amount |-> "",
                                 files |-> << >>])
          /\ \A i \in 1..Len(creditData) :
                ReselectedEmpty(creditData, creditData[i].type,
                                [type |-> creditData[i].type, details |-> "",
                                 files |-> << >>]))
    /\ [][/\ \A type \in SomeIncomeTypes :
                /\ (IsSelected(incomeData, type) /\ ~IsSelected(incomeData', type))
                       => incomeData' = SelectSeq(incomeData,
                                                  LAMBDA item : item.type # type)
                /\ (~IsSelected(incomeData, type) /\ IsSelected(incomeData', type))
                       => incomeData' = incomeData \o << [type |-> type, files |-> << >>] >>
          /\ (adjustmentData # << >> /\ adjustmentData' = << >>)
                 => UNCHANGED << incomeData, creditData >>
          /\ (adjustmentData = << >> /\ adjustmentData' # << >>)
                 => adjustmentData' = << [type |-> adjustmentTypes[1], amount |-> "",
                                          files |-> << >>] >>
          /\ (creditData = << >> /\ creditData' # << >>)
                 => creditData' = << [type |-> creditTypes[1], details |-> "",
                                      files |-> << >>] >>
         ]_vars

\* An income type holds files beside another type, and the adjustment and the credit
\* hold an amount, details and a file each: entries with everything to lose.
C26_Witness ==
    /\ Len(incomeData) = 2
    /\ Len(FilesOf(incomeData, incomeTypes[1])) > 1
    /\ adjustmentData # << >>
    /\ adjustmentData[1].amount = "100" /\ adjustmentData[1].files # << >>
    /\ creditData # << >>
    /\ creditData[1].details = "2 children" /\ creditData[1].files # << >>

\* The types of a list, in list order.
TypesOf(list) == [i \in 1..Len(list) |-> list[i].type]

\* What processFile may give for a file.
Outcomes(file, loaded) ==
    {processFile(file, loaded, raster, imageLoads) :
        raster \in Rasterizations, imageLoads \in BOOLEAN}

\* The list after the handler of upload has ended: the same types, the entries of the
\* other types as they were, and after the files of the entry of the upload's type
\* the files the handler had collected and those of its last file, if it gave any.
CompletedInto(list, after, upload) ==
    /\ TypesOf(after) = TypesOf(list)
    /\ \A k \in 1..Len(list) : list[k].type # upload.type => after[k] = list[k]
    /\ \A k \in 1..Len(list) :
           list[k].type = upload.type =>
               /\ [after[k] EXCEPT !.files = << >>] = [list[k] EXCEPT !.files = << >>]
               /\ \E result \in Outcomes(upload.files[Len(upload.files)], upload.loaded) :
                      after[k].files =
                          list[k].files \o upload.newFiles
                              \o (IF result.resolved THEN result.value ELSE << >>)

\* C30: when the handler of a categorized upload ends, the types selected in the three
\* lists are as before and so are the entries of all other types and the other two
\* lists; with the type of the upload no longer selected the list is unchanged, and
\* otherwise the files of the upload follow the files its entry then holds.
C30_CompletionKeepsSelection ==
    [][\A i \in 1..Len(uploads) :
          (/\ uploads' = RemoveAt(uploads, i)
           /\ uploads[i].field \in {"incomeData", "adjustmentData", "creditData"}) =>
              /\ uploads[i].field = "incomeData" =>
                     /\ CompletedInto(incomeData, incomeData', uploads[i])
                     /\ UNCHANGED << adjustmentData, creditData >>
              /\ uploads[i].field = "adjustmentData" =>
                     /\ CompletedInto(adjustmentData, adjustmentData', uploads[i])
                     /\ UNCHANGED << incomeData, creditData >>
              /\ uploads[i].field = "creditData" =>
                     /\ CompletedInto(creditData, creditData', uploads[i])
                     /\ UNCHANGED << incomeData, adjustmentData >>
              /\ ~IsSelected(incomeData, uploads[i].type)
                     /\ ~IsSelected(adjustmentData, uploads[i].type)
                     /\ ~IsSelected(creditData, uploads[i].type)
                     => UNCHANGED << incomeData, adjustmentData, creditData >>
      ]_vars

\* An upload has ended and left its files in the entry of the first income type,
\* which stands after an entry without files; an upload for the adjustment is running
\* and its type, selected when it began, is selected no longer.
C30_Witness ==
    /\ Len(incomeData) = 2
    /\ incomeData[2].type = incomeTypes[1]
    /\ incomeData[2].files # << >>
    /\ incomeData[1].files = << >>
    /\ adjustmentData = << >>
    /\ \E i \in 1..Len(uploads) : uploads[i].field = "adjustmentData"

\* A slot is empty or holds one record, the whole of a file or the first page of a PDF.
OneFileOrNone(value) ==
    value # Undefined =>
        /\ DOMAIN value = {"name", "type", "data"}
        /\ value.data.page \in {0, 1}

\* C27: each of the four slots holds nothing or one record. A slot changes when the
\* processFile of an upload to it resolves, to the first of the records resolved
\* with (the first page of a PDF of several pages, nothing when there is no
\* record), and the completion of an upload to a slot leaves the other slots and the
\* general list as they were.
C27_SlotHoldsFirstRecord ==
    /\ [](\A field \in SlotNames : OneFileOrNone(Slot(documentUploads, field)))
    /\ [][\A field \in SlotNames :
             /\ Slot(documentUploads', field) # Slot(documentUploads, field) =>
                    \E i \in 1..Len(uploads) :
                        /\ uploads' = RemoveAt(uploads, i)
                        /\ uploads[i].field = field
                        /\ \E result \in Outcomes(uploads[i].files[1], uploads[i].loaded) :
                               /\ result.resolved
                               /\ Slot(documentUploads', field) =
                                      IF result.value = << >> THEN Undefined
                                      ELSE result.value[1]
             /\ \A i \in 1..Len(uploads) :
                    (uploads' = RemoveAt(uploads, i) /\ uploads[i].field = field) =>
                        /\ \A other \in SlotNames \ {field} :
                               Slot(documentUploads', other) = Slot(documentUploads, other)
                        /\ documentUploads'.incomeDocuments
                               = documentUploads.incomeDocuments
                        /\ uploads[i].done = 0
         ]_vars

\* The first page of the PDF is in one slot, the raw PDF in another, and the general
\* list holds the image uploaded to it.
C27_Witness ==
    /\ \E field \in SlotNames :
           /\ Slot(documentUploads, field) # Undefined
           /\ Slot(documentUploads, field).name = "w2.pdf - Page 1"
    /\ \E field \in SlotNames :
           /\ Slot(documentUploads, field) # Undefined
           /\ Slot(documentUploads, field).name = "w2.pdf"
    /\ documentUploads.incomeDocuments # << >>

\* C28: the startup cleanup never removes a credential: whatever is stored for an
\* email stays stored at every step, the page being loaded again included, so that a
\* later login with the registered password succeeds and a second registration of
\* the email is refused.
C28_StartupKeepsCredentials ==
    [][\A e \in Accounts : Pwd(e) # "" => localStorage'[e] = Pwd(e)]_vars

\* C29: in every reachable state a wizard step above the first has the acceptance
\* flag set, so that Submit, offered on the last step only, is reached only with the
\* flag set: also after a save, a logout, a login with its load, and Start New
\* Checklist.
C29_StepAboveWelcomeAccepted ==
    currentStep > 0 => userAgreementAccepted

\* The wizard is on its last step, where Submit is offered, with the flag set, and
\* the record stored for the user holds that step and the flag: the state a save
\* leaves, and the one a logout, login and load come back to.
C29_Witness ==
    /\ Screen = "wizard"
    /\ currentStep = lastStep
    /\ userAgreementAccepted
    /\ dbQ = << >>
    /\ \E r \in db :
           r.email = currentUser /\ r.currentStep = lastStep /\ r.userAgreementAccepted

====
